---- MODULE Spec2Model ----
(***************************************************************************)
(* Model of the general-agent orchestration core:                          *)
(*   - the event bus (src/app/events/event_bus.py): typed listeners, sink  *)
(*     (WebSocket) handlers, emit_event and emit_event_async;              *)
(*   - the correlation queue registry of the same file;                    *)
(*   - plan execution of the agent loop (src/app/agents/agent_loop.py)     *)
(*     and the executor's step (src/app/agents/executor.py);               *)
(*   - the entry of a run: analysis, direct answer and planning            *)
(*     (run_async of the agent loop);                                      *)
(*   - the turn loop of the browser sub-agent                              *)
(*     (src/app/agents/cua/cua_agent.py) and its monitoring pass;          *)
(*   - the read-modify-write calls of the session store                    *)
(*     (src/app/memory/redis_memory.py);                                   *)
(*   - a WebSocket connection with its sink handler (src/api.py);          *)
(*   - the API process with several connections and a chat request        *)
(*     (src/api.py).                                                       *)
(* Each part has its own specification (BusSpec, QueueSpec, PlanSpec,      *)
(* StepSpec, RunSpec, TurnSpec, StoreSpec, MonSpec, ConnSpec, ServerSpec)  *)
(* over the one set of variables; the variables of the other parts stay at *)
(* their initial values.                                                   *)
(***************************************************************************)
EXTENDS Integers, Sequences, FiniteSets, TLC

VARIABLES
    listeners,      \* _event_listeners: event type -> list of listeners
    sinks,          \* _websocket_handlers: list of sink handlers
    subs,           \* per event type: the subscribe calls made, with the handle each returned
    nextReg,        \* stamp of the next registration (its rank in registration order)
    em              \* per publishing task: its emission in progress and its call record

busVars == <<listeners, sinks, subs, nextReg, em>>

VARIABLES
    queue_ids,        \* the keys of _message_queues
    queue_items,      \* the content of each asyncio.Queue of _message_queues
    recv,             \* per receiving task: its receive_message call
    sent,             \* the send_message calls made so far, with their outcome
    received          \* per queue id: the messages receive_message has returned

queueVars == <<queue_ids, queue_items, recv, sent, received>>

VARIABLES
    plan,           \* the plan being executed: the description of each step
    run,            \* the position of _execute_plan_async and its local variables
    context,        \* the execution context (local variable `context`)
    events,         \* the events the run has published, in order
    execCalls,      \* the steps the executor has been invoked for, in order
    session         \* the record of the session in the store

planVars == <<plan, run, context, events, execCalls, session>>

VARIABLES
    turn            \* the turn loop of the tool-use sub-agent (CuaAgent.run_full_turn)

turnVars == <<turn>>

VARIABLES
    store,          \* the value of the key session:<id> in Redis
    writers         \* per writer (a RedisMemory caller): its add_message / update_state call

storeVars == <<store, writers>>

VARIABLES
    mon             \* monitoring_state of one run_full_turn, and the calls made from it

monVars == <<mon>>

VARIABLES
    conn            \* one WebSocket connection: its endpoint coroutine, its sink handler, its run

connVars == <<conn>>

VARIABLES
    server          \* the API process: its connections, the sink handler list, a chat request

serverVars == <<server>>

auxVars == <<storeVars, monVars, connVars, serverVars>>

vars == <<busVars, queueVars, planVars, turnVars, auxVars>>

(***************************************************************************)
(* Bounds and universes                                                    *)
(***************************************************************************)
MaxRegs == 3        \* subscribe / register calls in one behaviour
MaxSends == 2       \* send_message calls in one behaviour
MaxSteps == 2       \* steps of a plan
MaxRuns == 2        \* run_async calls on one session in one behaviour
MaxChecks == 2      \* pending safety checks of one computer_call
MaxQuestions == 2   \* clarification questions the sub-agent's model asks in one run
MaxMonItems == 12   \* items passed to the monitoring pass in one turn loop
MaxFrames == 3      \* frames sent to the client of one connection

EventTypes == {"step", "complete"}
Publishers == {"p1"}

\* The callables that get registered: a plain function, which raises on the
\* events of type FailingType and returns on the others, and a coroutine
\* function (async def), which returns or raises when it is awaited.
Fns == {"h_fn", "h_co"}
FailingType == "step"

IsCoroutine(fn) == fn = "h_co"
SyncRaises(fn, t) == fn = "h_fn" /\ t = FailingType

Range(s) == {s[i] : i \in DOMAIN s}
RemoveAt(s, i) == SubSeq(s, 1, i - 1) \o SubSeq(s, i + 1, Len(s))
FnsOf(s) == [i \in DOMAIN s |-> s[i].fn]
RegsOf(s) == {s[i].reg : i \in DOMAIN s}

IdleEmission ==
    [phase |-> "idle", entry |-> "none", type |-> "none", idx |-> 0,
     live |-> TRUE, frozen |-> <<>>, disturbed |-> FALSE, seqDisturbed |-> FALSE,
     allAsync |-> TRUE, outcome |-> "none", k |-> 0, used |-> {}, calls |-> <<>>,
     got |-> [fn \in Fns |-> <<>>], kept |-> {}, removed |-> FALSE]

BusInit ==
    /\ listeners = [t \in EventTypes |-> <<>>]
    /\ sinks = <<>>
    /\ subs = [t \in EventTypes |-> <<>>]
    /\ nextReg = 1
    /\ em = [p \in Publishers |-> IdleEmission]

(***************************************************************************)
(* Registration                                                            *)
(***************************************************************************)
\* A change of a registry while a publishing task has started its sequence of
\* calls is recorded on that task (ghost state used to scope the claims).
DisturbAll(ems) ==
    [p \in Publishers |->
        [ems[p] EXCEPT !.disturbed = @ \/ (ems[p].phase # "idle"),
                       !.seqDisturbed = @ \/ (ems[p].k > 0)]]

\* The registries are followed while some publishing task can still publish:
\* what happens to them after the last publish call is observed by nobody.
\* The removal of sink handlers while a publishing task is in its loop over
\* the sink handlers is recorded on that task: `kept` are the handlers that
\* have been in the list since that loop began (ghost state, dropped when the
\* loop ends).
SinkRemoved(ems, fns) ==
    [p \in Publishers |->
        IF ems[p].phase = "sink"
        THEN [ems[p] EXCEPT !.kept = @ \ fns, !.removed = TRUE]
        ELSE ems[p]]

RegistryOpen == \E p \in Publishers : em[p].used # EventTypes \/ em[p].phase # "done"

\* list.append(listener)
AddListenerFront(lst, entry) == <<entry>> \o lst
AddListener(lst, entry) == Append(lst, entry)

\* register_event_listener(event_type, listener) -> index
RegisterEventListener(t, fn) ==
    /\ nextReg <= MaxRegs
    /\ RegistryOpen
    /\ LET reg == nextReg
           lst == AddListener(listeners[t], [fn |-> fn, reg |-> reg])
       IN /\ listeners' = [listeners EXCEPT ![t] = lst]
          /\ nextReg' = reg + 1
    /\ em' = DisturbAll(em)
    /\ UNCHANGED sinks

\* _event_listeners[event_type].pop(listener_index), guarded by the range check
PopListener(lst, index) ==
    IF 0 <= index /\ index < Len(lst) THEN RemoveAt(lst, index + 1) ELSE lst

\* unregister_event_listener(event_type, listener_index)
UnregisterEventListener(t, index) ==
    /\ RegistryOpen
    /\ LET lst == PopListener(listeners[t], index)
       IN /\ listeners' = [listeners EXCEPT ![t] = lst]
          /\ em' = IF lst # listeners[t] THEN DisturbAll(em) ELSE em
    /\ UNCHANGED <<sinks, nextReg>>

\* A client of the bus: it subscribes, keeps the returned handle, and later
\* unsubscribes with that handle (once per subscription).
Subscribe(t, fn) ==
    /\ RegisterEventListener(t, fn)
    /\ subs' = [subs EXCEPT ![t] = Append(@,
                    [reg |-> nextReg, handle |-> Len(listeners'[t]) - 1,
                     active |-> TRUE])]

Unsubscribe(t, i) ==
    /\ i \in DOMAIN subs[t]
    /\ subs[t][i].active
    /\ UnregisterEventListener(t, subs[t][i].handle)
    /\ subs' = [subs EXCEPT ![t][i].active = FALSE]

\* register_websocket_handler(handler): appended unless already in the list
RegisterWebsocketHandler(fn) ==
    /\ nextReg <= MaxRegs
    /\ RegistryOpen
    /\ LET present == \E i \in DOMAIN sinks : sinks[i].fn = fn
       IN /\ sinks' = IF present THEN sinks
                      ELSE AddListener(sinks, [fn |-> fn, reg |-> nextReg])
          /\ nextReg' = IF present THEN nextReg ELSE nextReg + 1
          /\ em' = IF present THEN em ELSE DisturbAll(em)
    /\ UNCHANGED <<listeners, subs>>

\* list.remove(handler): the first occurrence
RemoveHandler(lst, fn) ==
    IF \E i \in DOMAIN lst : lst[i].fn = fn
    THEN RemoveAt(lst, CHOOSE i \in DOMAIN lst :
                          /\ lst[i].fn = fn
                          /\ \A j \in 1..(i - 1) : lst[j].fn # fn)
    ELSE lst

\* unregister_websocket_handler(handler)
UnregisterWebsocketHandler(fn) ==
    /\ \E i \in DOMAIN sinks : sinks[i].fn = fn
    /\ RegistryOpen
    /\ sinks' = RemoveHandler(sinks, fn)
    /\ em' = SinkRemoved(DisturbAll(em), {fn})
    /\ UNCHANGED <<listeners, subs, nextReg>>

\* clear_all_websocket_handlers(): the global name is rebound to a new empty
\* list; an emission that is iterating the old list object keeps iterating it.
ClearAllWebsocketHandlers ==
    /\ sinks # <<>>
    /\ RegistryOpen
    /\ sinks' = <<>>
    /\ em' = [p \in Publishers |->
                LET e == SinkRemoved(DisturbAll(em), Fns)[p] IN
                IF e.phase = "sink" /\ e.live
                THEN [e EXCEPT !.live = FALSE, !.frozen = sinks]
                ELSE e]
    /\ UNCHANGED <<listeners, subs, nextReg>>

(***************************************************************************)
(* Publishing                                                              *)
(***************************************************************************)
\* The list a delivery loop is iterating: the listeners of the event type, then
\* the sink handlers (the list object the loop started on).
CurrentList(e) ==
    IF e.phase = "typed" THEN listeners[e.type]
    ELSE IF e.live THEN sinks ELSE e.frozen

\* What calling handler fn gives: emit_event calls every handler as a plain
\* function, so a coroutine function only returns a coroutine object that is
\* never awaited; emit_event_async awaits a coroutine function.
CallResult(entry, fn, t) ==
    IF IsCoroutine(fn)
    THEN (IF entry = "async" THEN "pending" ELSE "never_awaited")
    ELSE (IF SyncRaises(fn, t) THEN "raised" ELSE "ok")

\* try: handler(...) except Exception: print(...)  -- the loop goes on
AfterHandlerNoCatch(e, res) ==
    IF res = "raised"
    THEN [e EXCEPT !.phase = "done", !.outcome = "raised"]
    ELSE [e EXCEPT !.idx = @ + 1]
AfterHandler(e, res) == [e EXCEPT !.idx = @ + 1]

\* The two loops of a delivery: the listeners of the type, then the sinks
FirstPhase == "typed"
NextPhaseNoSinks(phase) == "done"
NextPhase(phase) == IF phase = "typed" THEN "sink" ELSE "done"

\* Run the delivery loops from the emission's position until a coroutine
\* handler is awaited or both loops are over (no other task runs in between).
RECURSIVE Advance(_)
Advance(e) ==
    IF e.phase = "done" THEN e
    ELSE LET lst == CurrentList(e) IN
         IF e.idx > Len(lst)
         THEN IF NextPhase(e.phase) = "done"
              THEN [e EXCEPT !.phase = "done", !.outcome = "returned",
                             !.kept = {}, !.removed = FALSE]
              ELSE Advance([e EXCEPT !.phase = NextPhase(e.phase), !.idx = 1,
                                     !.live = TRUE,
                                     !.kept = {sinks[i].fn : i \in DOMAIN sinks}])
         ELSE LET h == lst[e.idx]
                  res == CallResult(e.entry, h.fn, e.type)
                  e1 == [e EXCEPT !.calls = Append(@,
                            [grp |-> e.phase, fn |-> h.fn,
                             reg |-> h.reg, res |-> res]),
                                  !.got[h.fn] =
                                      IF e.phase = "sink" /\ res # "never_awaited"
                                      THEN Append(@, e.k) ELSE @]
              IN IF res = "pending" THEN e1 ELSE Advance(AfterHandler(e1, res))

StartEmission(e, entry, t) ==
    [e EXCEPT !.phase = FirstPhase, !.entry = entry, !.type = t, !.idx = 1,
              !.live = TRUE, !.frozen = <<>>, !.disturbed = FALSE,
              !.outcome = "none", !.k = @ + 1, !.used = @ \cup {t}, !.calls = <<>>,
              !.kept = {}, !.removed = FALSE,
              !.allAsync = @ /\ (entry = "async")]

\* A publishing task makes its publish calls one after the other, each with an
\* event type it has not published yet.
CanPublish(p, t) ==
    /\ em[p].phase \in {"idle", "done"}
    /\ em[p].outcome # "raised"
    /\ t \notin em[p].used

\* emit_event(event_type, data): runs to its end without suspending
EmitEvent(p, t) ==
    /\ CanPublish(p, t)
    /\ em' = [em EXCEPT ![p] = Advance(StartEmission(em[p], "sync", t))]
    /\ UNCHANGED <<listeners, sinks, subs, nextReg>>

\* emit_event_async(event_type, data), up to its first suspension
EmitEventAsync(p, t) ==
    /\ CanPublish(p, t)
    /\ em' = [em EXCEPT ![p] = Advance(StartEmission(em[p], "async", t))]
    /\ UNCHANGED <<listeners, sinks, subs, nextReg>>

\* The awaited coroutine handler finishes (returns or raises); the loop of
\* emit_event_async goes on to its next suspension or to its end.
HandlerResume(p, res) ==
    /\ em[p].phase \in {"typed", "sink"}
    /\ LET e == em[p]
           n == Len(e.calls)
           e1 == [e EXCEPT !.calls[n].res = res]
       IN em' = [em EXCEPT ![p] = Advance(AfterHandler(e1, res))]
    /\ UNCHANGED <<listeners, sinks, subs, nextReg>>

BusNext ==
    \/ \E t \in EventTypes, fn \in Fns : RegisterEventListener(t, fn) /\ UNCHANGED subs
    \/ \E t \in EventTypes, index \in 0..(MaxRegs - 1) :
            UnregisterEventListener(t, index) /\ UNCHANGED subs
    \/ \E fn \in Fns : RegisterWebsocketHandler(fn)
    \/ \E fn \in Fns : UnregisterWebsocketHandler(fn)
    \/ ClearAllWebsocketHandlers
    \/ \E p \in Publishers, t \in EventTypes : EmitEvent(p, t)
    \/ \E p \in Publishers, t \in EventTypes : EmitEventAsync(p, t)
    \/ \E p \in Publishers, res \in {"ok", "raised"} : HandlerResume(p, res)


\* The typed registry alone, used by clients that keep their handles
RegistryNext ==
    \/ \E t \in EventTypes, fn \in Fns : Subscribe(t, fn)
    \/ \E t \in EventTypes, i \in 1..MaxRegs : Unsubscribe(t, i)


(***************************************************************************)
(* Correlation queues                                                      *)
(***************************************************************************)
QueueIds == {"q1", "q2"}
Receivers == {"r1", "r2"}
\* timeout: float = None (written NoTimeout), 0, or the 300 seconds that the
\* turn loop passes
NoTimeout == -1
ClarificationTimeout == 300
Timeouts == {NoTimeout, 0, ClarificationTimeout}
\* `return None`: the result of a receive that timed out (messages are 1, 2, ...)
TimeoutSentinel == 0

IdleRecv == [pc |-> "idle", id |-> "none", timeout |-> NoTimeout,
             result |-> TimeoutSentinel, nsent |-> 0]

QueueInit ==
    /\ queue_ids = {}
    /\ queue_items = [id \in QueueIds |-> <<>>]
    /\ recv = [r \in Receivers |-> IdleRecv]
    /\ sent = <<>>
    /\ received = [id \in QueueIds |-> <<>>]

\* asyncio.Queue: put appends, get takes the oldest item
QueuePutFront(items, m) == <<m>> \o items
QueuePut(items, m) == Append(items, m)
QueueGetItem(items) == Head(items)
QueueGetRest(items) == Tail(items)

\* get_message_queue(queue_id): get or create
GetMessageQueue(id) ==
    /\ id \notin queue_ids
    /\ queue_ids' = queue_ids \cup {id}
    /\ UNCHANGED <<queue_items, recv, sent, received>>

SendRecord(id, m, ret, via) ==
    [id |-> id, msg |-> m, ret |-> ret, via |-> via,
     depth |-> Len(queue_items[id])]

\* send_message(queue_id, message): the message is put on an existing queue.
\* For an unknown id the queue is not created: the message is written to the
\* WebSocket that api.active_sessions holds under that name, if any, and
\* dropped otherwise.  ws is what that lookup and send_text give: "absent" (no
\* such session), "sent", or "raised".
SendMessage(id, ws) ==
    /\ Len(sent) < MaxSends
    /\ LET m == Len(sent) + 1 IN
       IF id \in queue_ids
       THEN /\ queue_items' = [queue_items EXCEPT ![id] = QueuePut(@, m)]
            /\ sent' = Append(sent, SendRecord(id, m, TRUE, "queue"))
       ELSE /\ UNCHANGED queue_items
            /\ sent' = Append(sent,
                  IF ws = "sent"
                  THEN SendRecord(id, m, TRUE, "websocket")
                  ELSE SendRecord(id, m, FALSE, "dropped"))
    /\ UNCHANGED <<queue_ids, recv, received>>

\* `if timeout:` -- None and 0 both select the wait without a timer
TimeoutArmed(timeout) == timeout # NoTimeout /\ timeout # 0

\* receive_message(queue_id, timeout), up to its wait on queue.get()
ReceiveMessage(r, id, timeout) ==
    /\ recv[r].pc = "idle"
    /\ queue_ids' = queue_ids \cup {id}
    /\ recv' = [recv EXCEPT ![r] =
                  [pc |-> "waiting", id |-> id, timeout |-> timeout,
                   result |-> TimeoutSentinel, nsent |-> 0]]
    /\ UNCHANGED <<queue_items, sent, received>>

\* queue.get() completes: receive_message returns the item
RecvTake(r) ==
    /\ recv[r].pc = "waiting"
    /\ queue_items[recv[r].id] # <<>>
    /\ LET id == recv[r].id
           m == QueueGetItem(queue_items[id])
       IN /\ queue_items' = [queue_items EXCEPT ![id] = QueueGetRest(@)]
          /\ recv' = [recv EXCEPT ![r].pc = "returned", ![r].result = m,
                                  ![r].nsent = Len(sent)]
          /\ received' = [received EXCEPT ![id] = Append(@, m)]
    /\ UNCHANGED <<queue_ids, sent>>

\* The timer of asyncio.wait_for expires while the queue is still empty:
\* except asyncio.TimeoutError: return None.  (A waiting task whose queue.get()
\* can complete is run before its timer is.)
TimeoutFire(r) ==
    /\ recv[r].pc = "waiting"
    /\ TimeoutArmed(recv[r].timeout)
    /\ queue_items[recv[r].id] = <<>>
    /\ recv' = [recv EXCEPT ![r].pc = "returned", ![r].result = TimeoutSentinel,
                            ![r].nsent = Len(sent)]
    /\ UNCHANGED <<queue_ids, queue_items, sent, received>>

QueueNext ==
    \/ \E id \in QueueIds : GetMessageQueue(id)
    \/ \E id \in QueueIds, ws \in {"absent", "sent", "raised"} : SendMessage(id, ws)
    \/ \E r \in Receivers, id \in QueueIds, t \in Timeouts : ReceiveMessage(r, id, t)
    \/ \E r \in Receivers : RecvTake(r)
    \/ \E r \in Receivers : TimeoutFire(r)

(***************************************************************************)
(* Plan execution (AgentLoop._execute_plan_async)                          *)
(***************************************************************************)
Descriptions == {"da", "db"}
Plans == UNION {[1..n -> Descriptions] : n \in 1..MaxSteps}
\* The text a step can give (the empty text included)
Results == {"", "text"}

Event(type, current, total, description) ==
    [type |-> type, current |-> current, total |-> total, description |-> description]
StepEvent(i) == Event("step", i, Len(plan), plan[i])

EmptyContext ==
    [original_query |-> "", completed_steps |-> <<>>, current_step |-> 0,
     results |-> <<>>]

EmptyState == [original_query |-> "", has_context |-> FALSE, context |-> EmptyContext]

\* An item of a conversation.  The items of a model response carry the id the
\* API gave them (here: step and position); a function call also carries its
\* call_id, a function_call_output the call_id it answers.  `items` is only
\* used by the element that is a whole response.output list.
NoId == <<>>
Item(type, role, id, call_id, content) ==
    [type |-> type, role |-> role, id |-> id, call_id |-> call_id,
     content |-> content, items |-> <<>>]
\* {"role": role, "content": content}
Message(role, content) == Item("message", role, NoId, NoId, content)

UserQuery == Message("user", "query")

\* The local variables of the run that are not in use
IdleRun ==
    [pc |-> "idle", i |-> 0, memory |-> <<>>, result |-> "", ret |-> "none",
     output |-> <<>>, text |-> "", item |-> 0, requests |-> 0,
     returned |-> <<>>,
     n |-> 0, query |-> "", interactive |-> FALSE, direct |-> FALSE,
     plannerCalls |-> 0, answer |-> <<>>,
     finalRequests |-> 0, failed |-> "none"]

PlanInit ==
    /\ plan \in Plans
    /\ run = [IdleRun EXCEPT !.pc = "begin"]
    /\ context = EmptyContext
    /\ events = <<>>
    /\ execCalls = <<>>
    /\ session = [exists |-> TRUE, conversation |-> <<UserQuery>>,
                  state |-> [EmptyState EXCEPT !.original_query = "query"]]

\* RedisMemory.get_conversation / get_state: empty when the session is missing
GetConversation(sess) == IF sess.exists THEN sess.conversation ELSE <<>>
GetState(sess) == IF sess.exists THEN sess.state ELSE EmptyState

\* RedisMemory.add_message: appended unless the session is missing
AddMessageLost(sess, message) == sess
AddMessage(sess, message) ==
    IF ~sess.exists THEN sess
    ELSE IF message.type = "list"
         THEN [sess EXCEPT !.conversation = @ \o message.items]
         ELSE [sess EXCEPT !.conversation = Append(@, message)]

\* RedisMemory.update_state({"context": context})
UpdateStateContext(sess, ctx) ==
    IF sess.exists
    THEN [sess EXCEPT !.state.has_context = TRUE, !.state.context = ctx]
    ELSE sess

\* for message in memory["conversation"]: if message not in existing: add_message
RECURSIVE SyncConversation(_, _)
SyncConversation(sess, messages) ==
    IF messages = <<>> THEN sess
    ELSE SyncConversation(
            IF \E k \in DOMAIN GetConversation(sess) :
                    GetConversation(sess)[k] = Head(messages)
            THEN sess ELSE AddMessage(sess, Head(messages)),
            Tail(messages))

\* context["completed_steps"].append({...}); context["results"]["step_i"] = result
FoldStep(ctx, i, description, result) ==
    [ctx EXCEPT !.completed_steps =
                    Append(@, [step |-> i, description |-> description,
                               result |-> result]),
                !.results = Append(@, result)]

\* enumerate(plan, 1): the loop counter after a step
NextStep(i) == i + 1

\* emit "executing", read the state, initialise the context
BeginExecution ==
    /\ run.pc = "begin"
    /\ events' = Append(events, Event("executing", 0, 0, ""))
    /\ context' = [EmptyContext EXCEPT
                      !.original_query = GetState(session).original_query]
    /\ run' = [run EXCEPT !.pc = "loop", !.i = 1]
    /\ UNCHANGED <<plan, execCalls, session>>

\* Top of the loop for step i: emit "step", set current_step, read the
\* conversation into `memory`, emit "executing_step"
AnnounceStep ==
    /\ run.pc = "loop"
    /\ run.i <= Len(plan)
    /\ events' = events \o <<StepEvent(run.i),
                             Event("executing_step", run.i, 0, plan[run.i])>>
    /\ context' = [context EXCEPT !.current_step = run.i]
    /\ run' = [run EXCEPT !.pc = "invoke", !.memory = GetConversation(session)]
    /\ UNCHANGED <<plan, execCalls, session>>

\* ExecutorAgent.execute_step_async(self, step, context, memory,
\* emit_event_async=None) has no other parameter: a call with another keyword
\* argument raises TypeError before the body runs
ExecuteStepAccepts(keywords) == keywords = {}

\* The keyword arguments of the executor call of _execute_plan_async
\* (session_id=self.session_id) and of the call of ExecutorAgent.execute_step
ExecutorKeywords == {"session_id"}
WrapperKeywords == {}

\* The body of execute_step_async starts: result = "" and memory["conversation"]
\* is sent to the model
EnterExecutor(r) ==
    [r EXCEPT !.pc = "executing", !.result = "", !.requests = 1,
              !.output = <<>>, !.item = 0]

\* self.executor.execute_step_async(step, context, memory, emit_event_async,
\* session_id=self.session_id) is called
InvokeExecutor ==
    /\ run.pc = "invoke"
    /\ IF ExecuteStepAccepts(ExecutorKeywords)
       THEN /\ execCalls' = Append(execCalls, run.i)
            /\ run' = EnterExecutor(run)
       ELSE /\ execCalls' = execCalls
            /\ run' = [run EXCEPT !.pc = "raised", !.failed = "call"]
    /\ UNCHANGED <<plan, context, events, session>>

\* The output items a model response can have, by type
Outputs ==
    {<<>>, <<"message">>, <<"web_search_call", "message">>,
     <<"function_call">>, <<"function_call", "function_call">>,
     <<"function_call", "message">>, <<"message", "function_call">>}
\* The transcript the tool-use sub-agent returns for the call at a position
\* of the output, and the task (arguments["task"]) of that call
Transcripts == <<"ta", "tb">>
Tasks == <<"task a", "task b">>

\* response.output of the request of step i
ResponseItems(i, types, text) ==
    [k \in DOMAIN types |->
        Item(types[k],
             IF types[k] = "message" THEN "assistant" ELSE "",
             <<i, k>>,
             IF types[k] = "function_call" THEN <<i, k>> ELSE NoId,
             IF types[k] = "message" THEN text
             ELSE IF types[k] = "function_call" THEN Tasks[k] ELSE "")]

HasFunctionCall(output) == \E k \in DOMAIN output : output[k].type = "function_call"

\* response.output_text: the text of the message items of the output (an
\* output here has at most one)
OutputText(output) ==
    IF \E k \in DOMAIN output : output[k].type = "message"
    THEN output[CHOOSE k \in DOMAIN output : output[k].type = "message"].content
    ELSE ""

\* Without a function call the whole output list is appended as one element,
\* else each item is appended
AppendOutput(conversation, output) ==
    IF HasFunctionCall(output)
    THEN conversation \o output
    ELSE Append(conversation,
                [Item("list", "", NoId, NoId, "") EXCEPT !.items = output])

\* create_function_call_result_message(tool_response, call_id)
FunctionCallOutputUntagged(call_id, tool_response) ==
    Item("function_call_output", "", NoId, NoId, tool_response)
FunctionCallOutputEmpty(call_id, tool_response) ==
    Item("function_call_output", "", NoId, call_id, "")
FunctionCallOutput(call_id, tool_response) ==
    Item("function_call_output", "", NoId, call_id, tool_response)

\* The end of the loop over response.output: `return result`
AfterItem(r) ==
    IF r.item > Len(r.output)
    THEN [r EXCEPT !.pc = "fold", !.returned = Append(@, r.result)]
    ELSE r

\* The model answers the request: the output is appended to
\* memory["conversation"] and the loop over its items starts
ModelRespond(types, text) ==
    /\ run.pc = "executing"
    /\ LET output == ResponseItems(run.i, types, text) IN
        run' = AfterItem([run EXCEPT !.pc = "items", !.output = output,
                                    !.text = OutputText(output), !.item = 1,
                                    !.memory = AppendOutput(@, output)])
    /\ UNCHANGED <<plan, context, events, execCalls, session>>

\* The model call raises: the executor re-raises and the exception leaves the run
ExecutorRaise ==
    /\ run.pc = "executing"
    /\ run' = [run EXCEPT !.pc = "raised", !.failed = "step"]
    /\ UNCHANGED <<plan, context, events, execCalls, session>>

\* One item of the loop that is no function call: result = response.output_text
HandleTextItem ==
    /\ run.pc = "items"
    /\ run.output[run.item].type # "function_call"
    /\ run' = AfterItem([run EXCEPT !.result = run.text, !.item = @ + 1])
    /\ UNCHANGED <<plan, context, events, execCalls, session>>

\* One function_call item (computer_use): the arguments are parsed,
\* tool_usage and cua_event {task} are emitted and handle_cua_request(task)
\* is awaited
HandleFunctionCall ==
    /\ run.pc = "items"
    /\ run.output[run.item].type = "function_call"
    /\ events' = events \o <<Event("tool_usage", run.i, 0, ""),
                             Event("cua_event", run.i, 0, run.output[run.item].content)>>
    /\ run' = [run EXCEPT !.pc = "tool"]
    /\ UNCHANGED <<plan, context, execCalls, session>>

\* The handling of a function_call item raises before the sub-agent is
\* called: in json.loads(arguments), before the events, or in args['task'],
\* after tool_usage; the executor re-raises
FunctionCallRaise(where) ==
    /\ run.pc = "items"
    /\ run.output[run.item].type = "function_call"
    /\ events' = IF where = "arguments" THEN events
                 ELSE Append(events, Event("tool_usage", run.i, 0, ""))
    /\ run' = [run EXCEPT !.pc = "raised", !.failed = "tool"]
    /\ UNCHANGED <<plan, context, execCalls, session>>

\* handle_cua_request returns the transcript of the sub-agent: it is
\* appended as function_call_output with the call_id of the call
SubAgentReturns ==
    /\ run.pc = "tool"
    /\ LET tool_response == Transcripts[run.item] IN
        run' = AfterItem(
                [run EXCEPT !.pc = "items",
                            !.memory = Append(@, FunctionCallOutput(
                                            run.output[run.item].call_id, tool_response)),
                            !.result = tool_response,
                            !.item = @ + 1])
    /\ UNCHANGED <<plan, context, events, execCalls, session>>

\* handle_cua_request raises (the browser, a model call or the turn loop):
\* the executor re-raises
SubAgentRaises ==
    /\ run.pc = "tool"
    /\ run' = [run EXCEPT !.pc = "raised", !.failed = "tool"]
    /\ UNCHANGED <<plan, context, events, execCalls, session>>

\* After the executor: store the new messages, fold the result into the
\* context, persist the context, go to the next step
FoldResult ==
    /\ run.pc = "fold"
    /\ LET ctx == FoldStep(context, run.i, plan[run.i], run.result) IN
        /\ context' = ctx
        /\ session' = UpdateStateContext(SyncConversation(session, run.memory), ctx)
    /\ run' = [run EXCEPT !.pc = "loop", !.i = NextStep(run.i)]
    /\ UNCHANGED <<plan, events, execCalls>>

\* The for loop over the plan is exhausted
LoopDone(i, steps) == i > Len(steps)

\* After the loop: emit "finalizing", read the conversation and send it in the
\* final-response request
Finalize ==
    /\ run.pc = "loop"
    /\ LoopDone(run.i, plan)
    /\ events' = Append(events, Event("finalizing", 0, 0, ""))
    /\ run' = [run EXCEPT !.pc = "final_call", !.memory = GetConversation(session),
                          !.finalRequests = @ + 1]
    /\ UNCHANGED <<plan, context, execCalls, session>>

FinalAnswer == "final answer"
FailedFinalText == "Failed to generate final response: "

\* generate_final_response_async: the model's answer, or the failure text when
\* the model call raised (the exception is caught)
FinalText(raised) == IF raised THEN FailedFinalText ELSE FinalAnswer

\* The final-response call is over: its text is stored as an assistant
\* message, "complete" is emitted with it and the run returns it
FinalResponse(raised) ==
    /\ run.pc = "final_call"
    /\ LET text == FinalText(raised) IN
        /\ session' = AddMessage(session, Message("assistant", text))
        /\ events' = Append(events, Event("complete", 0, 0, text))
        /\ run' = [run EXCEPT !.pc = "returned", !.ret = text,
                              !.failed = IF raised THEN "final" ELSE @]
    /\ UNCHANGED <<plan, context, execCalls>>

\* The store drops the session record when its TTL runs out
SessionExpire ==
    /\ session.exists
    /\ run.pc \notin {"returned", "raised"}
    /\ session' = [exists |-> FALSE, conversation |-> <<>>, state |-> EmptyState]
    /\ UNCHANGED <<plan, run, context, events, execCalls>>

\* _execute_plan_async as it runs: the executor call of its first step raises
\* (ExecutorKeywords), so that FoldResult, Finalize and FinalResponse, the code
\* after that call, are never reached.
PlanNext ==
    \/ BeginExecution
    \/ AnnounceStep
    \/ InvokeExecutor
    \/ SessionExpire

\* The session records _execute_plan_async can find
PlanSessions ==
    {[exists |-> TRUE, conversation |-> <<Message("user", q)>>,
      state |-> [EmptyState EXCEPT !.original_query = q]] : q \in {"query", "qa", "qb"}}

\* _execute_plan_async(plan) is called
PlanCallInit ==
    /\ plan \in Plans
    /\ run = [IdleRun EXCEPT !.pc = "begin"]
    /\ context = EmptyContext
    /\ events = <<>>
    /\ execCalls = <<>>
    /\ session \in PlanSessions

(***************************************************************************)
(* The executor called with the arguments it accepts                       *)
(* (ExecutorAgent.execute_step, generate_final_response_async)             *)
(***************************************************************************)
\* A client executes the steps of a plan one after the other with one memory
\* dict, while the calls return, and then asks for the final response.
StepInit ==
    /\ plan \in Plans
    /\ run = [IdleRun EXCEPT !.pc = "client", !.memory = <<UserQuery>>]
    /\ context = EmptyContext
    /\ events = <<>>
    /\ execCalls = <<>>
    /\ session = [exists |-> TRUE, conversation |-> <<UserQuery>>,
                  state |-> [EmptyState EXCEPT !.original_query = "query"]]

\* execute_step(step, context, memory, emit_event_async) for the next step:
\* asyncio.run(self.execute_step_async(step, context, memory, emit_event_async))
ExecuteStep ==
    /\ run.pc \in {"client", "fold"}
    /\ run.i < Len(plan)
    /\ ExecuteStepAccepts(WrapperKeywords)
    /\ execCalls' = Append(execCalls, run.i + 1)
    /\ run' = EnterExecutor([run EXCEPT !.i = @ + 1])
    /\ UNCHANGED <<plan, context, events, session>>

\* generate_final_response_async(context, conversation) is called with the
\* conversation of the memory dict: the request is sent
CallFinalResponse ==
    /\ run.pc \in {"client", "fold"}
    /\ run.finalRequests = 0
    /\ run' = [run EXCEPT !.pc = "final_call", !.finalRequests = @ + 1]
    /\ UNCHANGED <<plan, context, events, execCalls, session>>

\* generate_final_response_async returns: the answer of the model, or the
\* failure text when the model call raised
FinalResponseReturns(raised) ==
    /\ run.pc = "final_call"
    /\ run' = [run EXCEPT !.pc = "returned", !.ret = FinalText(raised),
                          !.failed = IF raised THEN "final" ELSE @]
    /\ UNCHANGED <<plan, context, events, execCalls, session>>

StepNext ==
    \/ ExecuteStep
    \/ \E types \in Outputs, text \in Results : ModelRespond(types, text)
    \/ ExecutorRaise
    \/ HandleTextItem
    \/ HandleFunctionCall
    \/ \E where \in {"arguments", "task"} : FunctionCallRaise(where)
    \/ SubAgentReturns
    \/ SubAgentRaises
    \/ CallFinalResponse
    \/ \E raised \in BOOLEAN : FinalResponseReturns(raised)

(***************************************************************************)
(* The run of one user message (AgentLoop.run_async)                       *)
(***************************************************************************)
Queries == {"qa", "qb"}
FailedPlanText == "Failed to create a plan. Please try again with a more specific query."
ClarificationText == "I need some clarification: "
DirectTexts == {"direct answer", "I'm sorry, I encountered an error"}

\* What the planner model answers: {clarification_needed, plan}
PlanAnswers ==
    {[clarification_needed |-> c, plan |-> p] :
        c \in BOOLEAN, p \in {<<>>} \cup Plans}

RunInit ==
    /\ plan = <<>>
    /\ run = IdleRun
    /\ context = EmptyContext
    /\ events = <<>>
    /\ execCalls = <<>>
    /\ session = [exists |-> TRUE, conversation |-> <<>>, state |-> EmptyState]

\* RedisMemory.update_state({"original_query": query})
UpdateStateQuery(sess, query) ==
    IF sess.exists THEN [sess EXCEPT !.state.original_query = query] ELSE sess

\* The head of run_async: store the query, append the user message, read the
\* conversation
EnterRun(sess, query) == AddMessage(UpdateStateQuery(sess, query), Message("user", query))

\* run_async(user_query, interactive_clarification) is called on the session's
\* AgentLoop (the earlier call, if any, is over); the event and executor
\* records are those of the current call
StartRun(query, interactive) ==
    /\ run.pc \in {"idle", "returned", "raised"}
    /\ run.n < MaxRuns
    /\ session' = EnterRun(session, query)
    /\ run' = [IdleRun EXCEPT !.pc = "analyzing", !.n = run.n + 1, !.query = query,
                              !.interactive = interactive,
                              !.memory = GetConversation(session')]
    /\ events' = <<>>
    /\ execCalls' = <<>>
    /\ plan' = <<>>
    /\ context' = EmptyContext

\* _analyze_query_complexity returns (from the model or from its fallback):
\* either the direct response is requested, or "thinking" is emitted
Analyze(use_direct_response) ==
    /\ run.pc = "analyzing"
    /\ IF use_direct_response
       THEN /\ run' = [run EXCEPT !.pc = "direct", !.direct = TRUE]
            /\ UNCHANGED events
       ELSE /\ run' = [run EXCEPT !.pc = "planning"]
            /\ events' = Append(events, Event("thinking", 0, 0, ""))
    /\ UNCHANGED <<plan, context, execCalls, session>>

\* await emit_event_async("complete", {"message": response})
CompletedSilently(evs, text) == evs
Completed(evs, text) == Append(evs, Event("complete", 0, 0, text))

\* _generate_direct_response returns the answer (or its apology when the model
\* call raised); it is stored, "complete" is emitted and the run returns it
DirectResponse(text) ==
    /\ run.pc = "direct"
    /\ session' = AddMessage(session, Message("assistant", text))
    /\ events' = Completed(events, text)
    /\ run' = [run EXCEPT !.pc = "returned", !.ret = text]
    /\ UNCHANGED <<plan, context, execCalls>>

\* PlannerAgent.create_plan(self, user_query) has no other parameter
CreatePlanAcceptsAny(keywords) == TRUE
CreatePlanAccepts(keywords) == keywords = {}

\* The keyword arguments of the planner call of run_async
PlannerKeywords == {"model"}

\* The synchronous stretch of run_async from the planner call to its return or
\* to the "plan" event: the kind of its outcome
PlanningOutcome(interactive, first, second) ==
    IF ~CreatePlanAccepts(PlannerKeywords) THEN "raise"
    ELSE IF first.clarification_needed
         THEN IF ~interactive THEN "clarification"
              ELSE IF second.clarification_needed THEN "recurse"
              ELSE IF second.plan = <<>> THEN "failed" ELSE "plan"
         ELSE IF first.plan = <<>> THEN "failed" ELSE "plan"

\* The planner calls the stretch makes
PlannerCallsOf(interactive, first) ==
    IF ~CreatePlanAccepts(PlannerKeywords) THEN 1
    ELSE IF first.clarification_needed /\ interactive THEN 2 ELSE 1

\* The messages the stretch appends: the clarification request and, when
\* interactive, the clarification read from the terminal
SessionAfterPlanning(sess, interactive, first, clarification) ==
    IF ~CreatePlanAccepts(PlannerKeywords) \/ ~first.clarification_needed THEN sess
    ELSE LET asked == AddMessage(sess, Message("assistant", ClarificationText))
         IN IF interactive THEN AddMessage(asked, Message("user", clarification))
            ELSE asked

\* The planner call of run_async and what follows it without suspension.
\* `first` and `second` are the answers the planner model has for the first
\* and for the repeated request.
CreatePlan(first, second, clarification) ==
    /\ run.pc = "planning"
    /\ LET outcome == PlanningOutcome(run.interactive, first, second)
           sess == SessionAfterPlanning(session, run.interactive, first, clarification)
           r == [run EXCEPT !.plannerCalls = PlannerCallsOf(run.interactive, first),
                            !.answer = <<first>>]
           steps == IF first.clarification_needed THEN second.plan ELSE first.plan
       IN CASE outcome = "raise" ->
                 /\ run' = [r EXCEPT !.pc = "raised"]
                 /\ UNCHANGED <<plan, events, session>>
            [] outcome = "clarification" ->
                 /\ run' = [r EXCEPT !.pc = "returned", !.ret = "clarification_needed"]
                 /\ session' = sess
                 /\ UNCHANGED <<plan, events>>
            [] outcome = "failed" ->
                 /\ run' = [r EXCEPT !.pc = "returned", !.ret = FailedPlanText]
                 /\ session' = sess
                 /\ UNCHANGED <<plan, events>>
            [] outcome = "recurse" ->
                 /\ session' = EnterRun(sess, clarification)
                 /\ run' = [r EXCEPT !.pc = "analyzing", !.query = clarification,
                                     !.memory = GetConversation(session')]
                 /\ UNCHANGED <<plan, events>>
            [] outcome = "plan" ->
                 /\ events' = Append(events, Event("plan", 0, Len(steps), ""))
                 /\ session' = sess
                 /\ plan' = steps
                 /\ run' = [r EXCEPT !.pc = "begin"]
    /\ UNCHANGED <<context, execCalls>>

RunNext ==
    \/ \E query \in Queries, interactive \in BOOLEAN : StartRun(query, interactive)
    \/ \E use_direct_response \in BOOLEAN : Analyze(use_direct_response)
    \/ \E text \in DirectTexts : DirectResponse(text)
    \/ \E first \in PlanAnswers, second \in PlanAnswers, clarification \in Queries :
            CreatePlan(first, second, clarification)
    \/ SessionExpire

(***************************************************************************)
(* The turn loop of the tool-use sub-agent (CuaAgent.run_full_turn)        *)
(***************************************************************************)
\* The kinds of output item: a message that does not end in "?", one that
\* does, a reasoning item, a computer_call with so many pending safety checks
TurnItemKinds ==
    {[type |-> t, checks |-> 0] : t \in {"answer", "question", "reasoning"}}
        \cup {[type |-> "computer_call", checks |-> n] : n \in 0..MaxChecks}
\* The output of one response: no item, one item or two items
TurnOutputs ==
    {<<>>} \cup {<<a>> : a \in TurnItemKinds}
           \cup {<<a, b>> : a \in TurnItemKinds, b \in TurnItemKinds}

\* An item of new_items; a computer_call and its computer_call_output carry
\* the call_id (here: the position in the response)
TurnItem(type, role, call_id, content) ==
    [type |-> type, role |-> role, call_id |-> call_id, content |-> content,
     checks |-> 0]

\* response["output"] for a list of kinds
TurnResponse(kinds) ==
    [k \in DOMAIN kinds |->
        IF kinds[k].type = "computer_call"
        THEN [TurnItem("computer_call", "", k, "") EXCEPT !.checks = kinds[k].checks]
        ELSE IF kinds[k].type = "reasoning"
        THEN TurnItem("reasoning", "", 0, "")
        ELSE TurnItem("message", "assistant", 0, kinds[k].type)]

NoAnswerText == "User did not respond to clarification request. Please terminate the task."

\* `tail` holds the items appended to new_items since the last model request
\* (the response and the items made from it), `last` the role of the last
\* item of new_items ("none" while new_items is empty, "" for an item
\* without role), `dispatched` the calls whose action was sent to the computer
\* since the last request, `rejected` the call whose safety check was refused,
\* `asked` the value of `last` when the latest model request was made,
\* `nextId` the next clarification id (uuid4: never one made before), `clarId`
\* the id whose queue the loop waits on, `queue` the answers on that queue,
\* `emitted` the events published since the last request, `cause` what raised,
\* `checkedCall` the last call of the response for which the callback was asked
\* about a safety check and `checked` the number of checks it was asked about,
\* `posted` the answer a client has posted for the id `clarId` and `early`
\* whether it was posted before the loop called get_message_queue.
IdleTurn ==
    [pc |-> "idle", emitter |-> FALSE, response |-> <<>>, item |-> 0,
     tail |-> <<>>, last |-> "none", dispatched |-> <<>>, rejected |-> 0,
     checkedCall |-> 0, checked |-> 0, posted |-> "", early |-> FALSE,
     asked |-> "none", nextId |-> 1, clarId |-> 0, queue |-> <<>>,
     emitted |-> <<>>, cause |-> "none"]

TurnInit == turn = IdleTurn

\* new_items = new_items + items
AppendItems(t, items) ==
    [t EXCEPT !.tail = @ \o items,
              !.last = IF items = <<>> THEN @ ELSE items[Len(items)].role]

\* The while condition of run_full_turn: loop until the last item of
\* new_items has role assistant
LoopAgainUnlessUser(t) == t.last \notin {"assistant", "user"}
LoopAgain(t) == t.last # "assistant"

\* After handle_item of one item: next item, or the while condition
AfterTurnItem(t, result_items) ==
    LET t1 == [AppendItems(t, result_items) EXCEPT !.item = @ + 1]
    IN IF t1.item <= Len(t1.response) THEN [t1 EXCEPT !.pc = "items"]
       ELSE IF LoopAgain(t1) THEN [t1 EXCEPT !.pc = "request"]
       ELSE [t1 EXCEPT !.pc = "returned"]

\* handle_cua_request makes the agent and calls run_full_turn(input_items);
\* `emitter` tells whether an event emitter was given
StartTurn(emitter) ==
    /\ turn.pc = "idle"
    /\ turn' = [IdleTurn EXCEPT !.pc = "request", !.emitter = emitter]

\* The questions among the kinds of a response
QuestionsIn(kinds) == Cardinality({k \in DOMAIN kinds : kinds[k].type = "question"})

\* create_response returns a response with these output items: they are
\* appended to new_items and the loop over them starts
RequestTurn(kinds) ==
    /\ turn.pc = "request"
    /\ turn.nextId + QuestionsIn(kinds) <= MaxQuestions + 1
    /\ LET output == TurnResponse(kinds)
           t == [turn EXCEPT !.response = output, !.tail = <<>>, !.dispatched = <<>>,
                             !.checkedCall = 0, !.checked = 0,
                             !.item = 0, !.asked = turn.last, !.emitted = <<>>]
       IN turn' = AfterTurnItem(t, output)

\* create_response raises, or its response has no "output": the loop raises
RequestFails ==
    /\ turn.pc = "request"
    /\ turn' = [turn EXCEPT !.pc = "raised", !.cause = "request", !.asked = turn.last]

CurrentItem == turn.response[turn.item]

\* An event the sub-agent publishes through its emitter
TurnEvent(type, id, text) == [type |-> type, id |-> id, text |-> text]

\* A message item.  One that ends in "?" gets a new clarification id; with an
\* emitter, cua_clarification {question, id} is emitted (a failing emit is
\* caught and nothing is appended), the queue of the id is made and the loop
\* waits on it.  Any other message appends nothing.
HandleMessage(emit_ok) ==
    /\ turn.pc = "items"
    /\ CurrentItem.type = "message"
    /\ turn' =
          IF CurrentItem.content # "question" THEN AfterTurnItem(turn, <<>>)
          ELSE LET t == [turn EXCEPT !.nextId = @ + 1] IN
               IF turn.emitter /\ emit_ok
               THEN [t EXCEPT !.pc = "emitted", !.clarId = turn.nextId,
                              !.queue = <<>>, !.posted = "", !.early = FALSE,
                              !.emitted = Append(@,
                                  TurnEvent("cua_clarification", turn.nextId, "question"))]
               ELSE AfterTurnItem(t, <<>>)

\* The answers a client posts (the response is a segment of the request path:
\* a string that is not empty)
Answers == {"yes", "no"}

\* POST /api/send_clarification/{clarification_id}/{response}: the response
\* is put on the queue of the id, which is made when it does not exist.  The
\* client answers the clarification it was asked, once.
SendClarification(response) ==
    /\ turn.pc \in {"emitted", "clarifying"}
    /\ turn.posted = ""
    /\ turn' = [turn EXCEPT !.queue = Append(@, response), !.posted = response,
                            !.early = (turn.pc = "emitted")]

\* get_message_queue(queue_id): the queue of the id, made empty when the id
\* has none
MessageQueueFresh(t) == <<>>
MessageQueue(t) == t.queue

\* After the emit the loop calls get_message_queue(clarification_id) and
\* starts to wait in receive_message
AwaitClarification ==
    /\ turn.pc = "emitted"
    /\ turn' = [turn EXCEPT !.pc = "clarifying", !.queue = MessageQueue(turn)]

\* What receive_message returns when the timeout elapses
NoAnswer == ""

\* if user_clarification: the answer, else the fixed text, as a user item
ClarificationItemAsSystem(user_clarification) ==
    TurnItem("message", IF user_clarification = NoAnswer THEN "system" ELSE "user", 0,
             IF user_clarification = NoAnswer THEN NoAnswerText ELSE user_clarification)
ClarificationItemFixed(user_clarification) ==
    TurnItem("message", "user", 0, NoAnswerText)
ClarificationItem(user_clarification) ==
    TurnItem("message", "user", 0,
             IF user_clarification = NoAnswer THEN NoAnswerText ELSE user_clarification)

\* receive_message(clarification_id, timeout=300) returns the head of the
\* queue, or None once the timeout has elapsed on the empty queue
ClarificationEnd ==
    /\ turn.pc = "clarifying"
    /\ LET user_clarification ==
               IF turn.queue = <<>> THEN NoAnswer ELSE Head(turn.queue)
           t == [turn EXCEPT !.queue = IF @ = <<>> THEN @ ELSE Tail(@),
                             !.clarId = 0]
       IN turn' = AfterTurnItem(t, <<ClarificationItem(user_clarification)>>)

\* A reasoning item: with an emitter and a summary text, classify the text
\* (its first word; a text of white space only has none and raises) and emit
\* cua_reasoning; a failing emit is caught and drops the emitter
HandleReasoning(text, emit_ok) ==
    /\ turn.pc = "items"
    /\ CurrentItem.type = "reasoning"
    /\ turn' = IF ~turn.emitter \/ text = "" THEN AfterTurnItem(turn, <<>>)
               ELSE IF text = " " THEN [turn EXCEPT !.pc = "raised", !.cause = "reasoning"]
               ELSE AfterTurnItem(
                       [turn EXCEPT !.emitter = emit_ok,
                                    !.emitted = IF emit_ok
                                                THEN Append(@, TurnEvent("cua_reasoning", 0, text))
                                                ELSE @], <<>>)

\* What the callback answers to the pending safety checks of a call, in order
Acks == UNION {[1..n -> BOOLEAN] : n \in 0..MaxChecks}

\* Every pending safety check of the call is acknowledged by the callback
ChecksPassAlways(acks) == TRUE
ChecksPass(acks) == \A k \in DOMAIN acks : acks[k]

\* method(**action_args): the action of the call is sent to the computer
SendActionLater(t, call_id) == t.dispatched
SendAction(t, call_id) == Append(t.dispatched, call_id)

\* The checks the callback is asked about: all of them, or those up to the
\* first one it refuses
Evaluated(acks) ==
    IF \A k \in DOMAIN acks : acks[k] THEN Len(acks)
    ELSE CHOOSE k \in DOMAIN acks : ~acks[k] /\ \A j \in 1..(k - 1) : acks[j]

\* A computer_call item: the action is sent to the computer and a screenshot
\* is taken; either can raise
HandleComputerCall(computer_ok) ==
    /\ turn.pc = "items"
    /\ CurrentItem.type = "computer_call"
    /\ LET t == [turn EXCEPT !.dispatched = SendAction(turn, CurrentItem.call_id)]
       IN turn' = IF computer_ok THEN [t EXCEPT !.pc = "checks"]
                  ELSE [t EXCEPT !.pc = "raised", !.cause = "computer"]

\* The loop over pending_safety_checks: the callback is asked about each
\* check; a refusal raises, else the computer_call_output is appended
AcknowledgeChecks(acks) ==
    /\ turn.pc = "checks"
    /\ DOMAIN acks = 1..CurrentItem.checks
    /\ LET t == [turn EXCEPT !.checkedCall = IF acks = <<>> THEN @ ELSE CurrentItem.call_id,
                             !.checked = IF acks = <<>> THEN @ ELSE Evaluated(acks),
                             !.rejected = IF \A k \in DOMAIN acks : acks[k]
                                          THEN @ ELSE CurrentItem.call_id]
       IN turn' =
            IF ~ChecksPass(acks) THEN [t EXCEPT !.pc = "raised", !.cause = "safety"]
            ELSE AfterTurnItem(t,
                    <<[TurnItem("computer_call_output", "", CurrentItem.call_id, "")
                          EXCEPT !.checks = CurrentItem.checks]>>)

TurnNext ==
    \/ \E emitter \in BOOLEAN : StartTurn(emitter)
    \/ \E kinds \in TurnOutputs : RequestTurn(kinds)
    \/ RequestFails
    \/ \E emit_ok \in BOOLEAN : HandleMessage(emit_ok)
    \/ \E response \in Answers : SendClarification(response)
    \/ AwaitClarification
    \/ ClarificationEnd
    \/ \E text \in {"", " ", "click on x"}, emit_ok \in BOOLEAN : HandleReasoning(text, emit_ok)
    \/ \E computer_ok \in BOOLEAN : HandleComputerCall(computer_ok)
    \/ \E acks \in Acks : AcknowledgeChecks(acks)

(***************************************************************************)
(* The session store (src/app/memory/redis_memory.py): callers of          *)
(* add_message and update_state on one session id.  Each call is a GET of  *)
(* the whole record, a change of the decoded copy and a SET of the whole   *)
(* record; the callers are tasks of different processes or threads that    *)
(* share the Redis server.                                                 *)
(***************************************************************************)
Writers == {"w1", "w2", "w3"}
WriteOps == {"add_message", "update_state"}

\* The record of a session: its conversation and the keys of its state; `by`
\* is the caller whose SET stored the value
NoRecord == [exists |-> FALSE, conversation |-> <<>>, state |-> {}, by |-> "none"]
NewRecord == [exists |-> TRUE, conversation |-> <<>>, state |-> {}, by |-> "none"]

ReadOps == {"get_conversation", "get_state"}

\* What a read returns: the conversation (get_conversation) or the state
\* (get_state) of the record; [] and {} when there is no record
NoValue == [conversation |-> <<>>, state |-> {}]
ReadValue(record, op) ==
    IF op = "get_conversation"
    THEN [NoValue EXCEPT !.conversation = record.conversation]
    ELSE [NoValue EXCEPT !.state = record.state]

IdleWriter ==
    [pc |-> "idle", op |-> "none", session_data |-> NoRecord, ok |-> FALSE,
     value |-> NoValue]

StoreIdle ==
    /\ store = NewRecord
    /\ writers = [w \in Writers |-> IdleWriter]

\* The session was created, or it never was or has expired
StoreInit ==
    /\ store \in {NewRecord, NoRecord}
    /\ writers = [w \in Writers |-> IdleWriter]

\* `if not session_data`: get_session returns None when the key has no value
FoundAlways(record) == TRUE
Found(record) == record.exists

\* get_session at the start of add_message / update_state: redis GET and
\* json.loads; the call returns False when there is no record
GetSession(w, op) ==
    /\ writers[w].pc = "idle"
    /\ writers' = [writers EXCEPT ![w] =
                      IF Found(store)
                      THEN [IdleWriter EXCEPT !.pc = "read", !.op = op,
                                              !.session_data = store]
                      ELSE [IdleWriter EXCEPT !.pc = "done", !.op = op]]
    /\ UNCHANGED store

\* get_conversation / get_state: get_session, then the field of the record
ReadSession(w, op) ==
    /\ writers[w].pc = "idle"
    /\ writers' = [writers EXCEPT ![w] =
                      IF Found(store)
                      THEN [IdleWriter EXCEPT !.pc = "done", !.op = op, !.ok = TRUE,
                                              !.value = ReadValue(store, op)]
                      ELSE [IdleWriter EXCEPT !.pc = "done", !.op = op]]
    /\ UNCHANGED store

\* The TTL of the key runs out (SET ... ex=expire_time): Redis drops the record
Expire ==
    /\ store.exists
    /\ store' = NoRecord
    /\ UNCHANGED writers

\* The record the call changes: the copy it has read
BasisCurrent(w) == store
Basis(w) == writers[w].session_data

\* The change of the copy: session_data["conversation"].append(message) with
\* the message of this caller, or session_data["state"].update(state_updates)
\* with the key of this caller
Modified(session_data, w, op) ==
    IF op = "add_message"
    THEN [session_data EXCEPT !.conversation = Append(@, w)]
    ELSE [session_data EXCEPT !.state = @ \cup {w}]

\* update_session: redis SET of the whole changed copy; the call returns the
\* result of SET
UpdateSession(w) ==
    /\ writers[w].pc = "read"
    /\ store' = [Modified(Basis(w), w, writers[w].op) EXCEPT !.exists = TRUE, !.by = w]
    /\ writers' = [writers EXCEPT ![w].pc = "done", ![w].ok = TRUE]

StoreNext ==
    \/ \E w \in Writers, op \in WriteOps : GetSession(w, op)
    \/ \E w \in Writers : UpdateSession(w)
    \/ \E w \in Writers, op \in ReadOps : ReadSession(w, op)
    \/ Expire

(***************************************************************************)
(* The monitoring pass of the sub-agent (_monitor_and_intervene of         *)
(* cua_agent.py), called once for each item the turn loop has handled.     *)
(***************************************************************************)
items_between_interventions == 2
max_interventions == 5

\* _initialize_monitoring_state; judge_calls counts the calls of
\* _get_monitoring_llm_guidance, capped_calls those made after
\* max_interventions interventions, injected is the list of items returned
MonInit ==
    mon = [items_processed |-> 0, last_intervention_item |-> 0,
           interventions_made |-> 0, judge_calls |-> 0, capped_calls |-> 0,
           injected |-> <<>>]

\* What _get_monitoring_llm_guidance returns: None (the judge answered
\* NO_INTERVENTION, or the call raised) or the text "GUIDANCE: ..."
NoGuidance == ""
Guidances == {NoGuidance, "GUIDANCE: g"}

\* The condition under which the judge is called
DueForJudgment(m) ==
    /\ m.items_processed - m.last_intervention_item >= items_between_interventions
    /\ m.interventions_made < max_interventions

\* _monitor_and_intervene(item, monitoring_state, conversation) for one item;
\* `intervention` is what the judge returns if it is called
MonitorAndIntervene(intervention) ==
    /\ mon.items_processed < MaxMonItems
    /\ LET m == [mon EXCEPT !.items_processed = @ + 1] IN
        IF DueForJudgment(m)
        THEN LET j == [m EXCEPT !.judge_calls = @ + 1,
                                !.capped_calls =
                                    IF m.interventions_made >= max_interventions
                                    THEN @ + 1 ELSE @] IN
             IF intervention # NoGuidance
             THEN mon' = [j EXCEPT !.last_intervention_item = j.items_processed,
                                   !.interventions_made = @ + 1,
                                   !.injected = Append(@, Message("user", intervention))]
             ELSE mon' = j
        ELSE /\ intervention = NoGuidance
             /\ mon' = m

MonNext == \E intervention \in Guidances : MonitorAndIntervene(intervention)

(***************************************************************************)
(* One WebSocket connection (src/api.py): the endpoint coroutine, which    *)
(* awaits the run of a client message inline, its sink handler             *)
(* websocket_event_handler, which the bus calls for every event published  *)
(* while it is registered, and the transport, which the client can close   *)
(* at any time.                                                            *)
(***************************************************************************)
\* The payloads of events: a mapping that is serializable or not (it holds an
\* object json.dumps rejects), empty or not, None, a string (plain text, the
\* text of a JSON object, text that only starts like one), another value
Payload(kind, text, empty, serializable) ==
    [kind |-> kind, text |-> text, empty |-> empty, serializable |-> serializable]
Payloads ==
    { Payload("none", "None", TRUE, TRUE),
      Payload("dict", "{}", TRUE, TRUE),
      Payload("dict", "{'message': 'm'}", FALSE, TRUE),
      Payload("dict", "{'item': <object>}", FALSE, FALSE),
      Payload("str", "hello", FALSE, TRUE),
      Payload("str", "{\"a\": 1}", FALSE, TRUE),
      Payload("str", "{oops", FALSE, TRUE),
      Payload("other", "7", FALSE, TRUE) }
RunPayload == Payload("dict", "{'message': 'm'}", FALSE, TRUE)

\* json.loads of a string that starts with "{" succeeds
ParsesAsJson(text) == text = "{\"a\": 1}"
LooksLikeJson(text) == text \in {"{\"a\": 1}", "{oops"}

\* A frame for the client: {"type": type, "data": data}; data is the payload
\* mapping itself ("mapping"), the mapping a JSON text decodes to ("parsed"),
\* {"message": <string form>} ("wrapper") or the message of an error event
Frame(type, shape, text) == [type |-> type, shape |-> shape, text |-> text]
NoFrame == Frame("none", "none", "")

\* websocket_data of the handler: the copy of a mapping, the decoded JSON
\* text, or the wrapper of the string form
WebsocketData(data) ==
    IF data.kind = "dict" THEN [shape |-> "mapping", text |-> data.text]
    ELSE IF data.kind = "str" /\ LooksLikeJson(data.text) /\ ParsesAsJson(data.text)
         THEN [shape |-> "parsed", text |-> data.text]
         ELSE [shape |-> "wrapper", text |-> data.text]

\* browser_started is sent as cua_event
WebsocketEventType(event_type) ==
    IF event_type = "browser_started" THEN "cua_event" ELSE event_type

\* What the handler does with an event while connection_active: "skip" an
\* empty payload, "send" the frame, or, when json.dumps raises, send an
\* error event in place of it
HandlerPlan(event_type, data) ==
    IF data.kind = "none" \/ (data.kind = "dict" /\ data.empty)
    THEN [do |-> "skip", frame |-> NoFrame]
    ELSE IF data.kind = "dict" /\ ~data.serializable
         THEN [do |-> "error", frame |-> Frame("error", "error", event_type)]
         ELSE [do |-> "send",
               frame |-> Frame(WebsocketEventType(event_type),
                               WebsocketData(data).shape, WebsocketData(data).text)]

\* The last call of the handler: its event and what came of it ("inactive",
\* "skip", "send", "error", or "failed" when send_text raised)
Handled(c, event_type, data, outcome, frame) ==
    [c EXCEPT !.last = [type |-> event_type, data |-> data,
                        outcome |-> outcome, frame |-> frame]]

\* websocket_event_handler(event_type, data).  On a closed transport
\* send_text raises WebSocketDisconnect (disconnect_exc) or another exception,
\* depending on the server; the handler catches both and returns.
Handle(c, event_type, data, disconnect_exc) ==
    IF ~c.connection_active
    THEN Handled(c, event_type, data, "inactive", NoFrame)
    ELSE LET h == HandlerPlan(event_type, data) IN
         IF h.do = "skip"
         THEN Handled(c, event_type, data, "skip", NoFrame)
         ELSE IF c.transport = "open"
              THEN [Handled(c, event_type, data, h.do, h.frame) EXCEPT !.sent = @ + 1]
              ELSE [Handled(c, event_type, data, "failed", NoFrame) EXCEPT
                        !.connection_active = IF h.do = "send" /\ disconnect_exc
                                              THEN FALSE ELSE @,
                        !.dropped = TRUE]

\* The connection after the handler was registered (api.py:177-178)
ConnInit ==
    conn = [endpoint |-> "receiving", connection_active |-> TRUE,
            registered |-> TRUE, transport |-> "open", message_data |-> "none",
            runPc |-> "idle", runs |-> 0, stored |-> 0, sent |-> 0,
            dropped |-> FALSE, inflight |-> FALSE, texts |-> <<>>,
            last |-> [type |-> "none", data |-> Payload("none", "None", TRUE, TRUE),
                      outcome |-> "none", frame |-> NoFrame]]

\* An event is published (emit_event_async) while the handler is in the list
\* of sink handlers
Deliver(event_type, data, disconnect_exc) ==
    /\ conn.registered
    /\ conn.sent < MaxFrames
    /\ conn' = Handle(conn, event_type, data, disconnect_exc)

\* The client goes away
TransportDown ==
    /\ conn.transport = "open"
    /\ conn.endpoint # "closed"
    /\ conn' = [conn EXCEPT !.transport = "down",
                            !.inflight = (conn.endpoint = "running")]

\* The ends of the endpoint: `except WebSocketDisconnect` and `finally`
CleanupFlagOnly(c) ==
    [c EXCEPT !.endpoint = "closed", !.connection_active = FALSE, !.transport = "down"]
Cleanup(c) ==
    [c EXCEPT !.endpoint = "closed", !.connection_active = FALSE,
              !.registered = FALSE, !.transport = "down"]

\* `except Exception`: an error frame if connection_active, then `finally`
EndpointFails(c) ==
    Cleanup(IF c.connection_active /\ c.transport = "open"
            THEN [c EXCEPT !.sent = @ + 1] ELSE c)

\* The branch of the receive loop for the decoded message
Dispatch(c, message_type) ==
    IF message_type = "message"
    THEN [c EXCEPT !.endpoint = "running", !.runPc = "analysis", !.runs = @ + 1]
    ELSE [c EXCEPT !.sent = @ + 1]

\* receive_text returns a text of the client: a message to process, a ping,
\* or a text json.loads rejects (message_data keeps its last value, or is
\* unbound in the first iteration); `texts` are the texts received so far
ReceiveText(kind) ==
    /\ conn.endpoint = "receiving"
    /\ conn.transport = "open"
    /\ conn.sent < MaxFrames
    /\ conn.runs < MaxRuns
    /\ LET message_data == IF kind = "garbage" THEN conn.message_data ELSE kind
           c == [conn EXCEPT !.texts = Append(@, kind)]
       IN conn' = IF message_data = "none"
                  THEN EndpointFails(c)
                  ELSE Dispatch([c EXCEPT !.message_data = message_data], message_data)

\* receive_text raises WebSocketDisconnect
ReceiveDisconnect ==
    /\ conn.endpoint = "receiving"
    /\ conn.transport = "down"
    /\ conn' = Cleanup(conn)

\* run_async after the analysis: the direct answer is awaited, or `thinking`
\* is published and create_plan raises TypeError, which ends the endpoint
RunAnalyze(use_direct_response, disconnect_exc) ==
    /\ conn.endpoint = "running"
    /\ conn.runPc = "analysis"
    /\ conn' = IF use_direct_response
               THEN [conn EXCEPT !.runPc = "direct"]
               ELSE EndpointFails(
                        [Handle(conn, "thinking", RunPayload, disconnect_exc)
                            EXCEPT !.runPc = "raised"])

\* The direct answer is stored, `complete` is published, run_async returns
RunDirect(disconnect_exc) ==
    /\ conn.endpoint = "running"
    /\ conn.runPc = "direct"
    /\ conn' = [Handle([conn EXCEPT !.stored = @ + 1], "complete", RunPayload,
                       disconnect_exc)
                    EXCEPT !.runPc = "idle", !.endpoint = "receiving"]

ConnProgress ==
    \/ ReceiveDisconnect
    \/ \E use_direct_response, disconnect_exc \in BOOLEAN :
            RunAnalyze(use_direct_response, disconnect_exc)
    \/ \E disconnect_exc \in BOOLEAN : RunDirect(disconnect_exc)

ConnNext ==
    \/ \E event_type \in {"complete", "browser_started"}, data \in Payloads,
          disconnect_exc \in BOOLEAN : Deliver(event_type, data, disconnect_exc)
    \/ TransportDown
    \/ \E kind \in {"message", "ping", "garbage"} : ReceiveText(kind)
    \/ ConnProgress

(***************************************************************************)
(* The API process (src/api.py) with several clients: WebSocket            *)
(* connections, each an endpoint coroutine with its sink handler in the    *)
(* one list _websocket_handlers, and an HTTP chat request.  A session id   *)
(* has one AgentLoop (active_agents), which the endpoints of the session   *)
(* share.                                                                  *)
(***************************************************************************)
Conns == {"c1", "c2"}
SessionIds == {"A", "B"}

\* A frame on a socket: its type and the session whose run or endpoint made it
SentFrame(type, session_id) == [type |-> type, session |-> session_id]

NoConnection ==
    [pc |-> "none", session |-> "none", connection_active |-> FALSE,
     down |-> FALSE, received |-> {}]

\* `chat` is the HTTP request in flight, `started` the run_async calls made
ServerInit ==
    server = [connection |-> [c \in Conns |-> NoConnection],
              websocket_handlers |-> <<>>,
              chat |-> [pc |-> "idle", session |-> "none"],
              started |-> 0]

Registered(c) ==
    \E k \in DOMAIN server.websocket_handlers : server.websocket_handlers[k] = c

\* unregister_websocket_handler: _websocket_handlers.remove(handler) if present
WithoutHandler(handlers, c) == SelectSeq(handlers, LAMBDA h : h # c)

\* websocket_endpoint starts for a new connection: clear_all_websocket_handlers(),
\* websocket.accept(), connection_active = True; the session id is the client's
OpenConnection(c, session_id) ==
    /\ server.connection[c].pc = "none"
    /\ server' = [server EXCEPT
                      !.websocket_handlers = <<>>,
                      !.connection[c] = [NoConnection EXCEPT !.pc = "accepting",
                                            !.session = session_id,
                                            !.connection_active = TRUE]]

\* The `except` and `finally` of the endpoint: the flag is cleared and the
\* handler of the connection, if it registered one, is unregistered
CloseConnection(srv, c) ==
    [srv EXCEPT !.connection[c].pc = "closed",
                !.connection[c].connection_active = FALSE,
                !.connection[c].down = TRUE,
                !.websocket_handlers = WithoutHandler(@, c)]

\* session_info is sent, the AgentLoop of the session is looked up or made,
\* the handler is registered; on a closed transport send_text raises
RegisterHandler(c) ==
    /\ server.connection[c].pc = "accepting"
    /\ server' =
          IF server.connection[c].down THEN CloseConnection(server, c)
          ELSE [server EXCEPT
                   !.connection[c].pc = "receiving",
                   !.connection[c].received =
                        @ \cup {SentFrame("session_info", server.connection[c].session)},
                   !.websocket_handlers = IF Registered(c) THEN @ ELSE Append(@, c)]

\* emit_event_async(type, data) by a run of the session: every handler of the
\* list is called; an active handler sends the frame on its socket, and on a
\* closed transport its send_text raises (WebSocketDisconnect clears its flag)
Published(srv, type, session_id, disconnect_exc) ==
    [srv EXCEPT !.connection =
        [c \in Conns |->
            LET k == srv.connection[c] IN
            IF (\E i \in DOMAIN srv.websocket_handlers : srv.websocket_handlers[i] = c)
                    /\ k.connection_active
            THEN IF k.down
                 THEN [k EXCEPT !.connection_active = ~disconnect_exc]
                 ELSE [k EXCEPT !.received = @ \cup {SentFrame(type, session_id)}]
            ELSE k]]

\* receive_text returns a message of the client: the endpoint awaits
\* agent.run_async(user_message) of the AgentLoop of its session
ClientMessage(c) ==
    /\ server.connection[c].pc = "receiving"
    /\ ~server.connection[c].down
    /\ server.started < MaxRuns
    /\ server' = [server EXCEPT !.connection[c].pc = "running", !.started = @ + 1]

\* The run of the endpoint ends: a direct answer, published with `complete`,
\* or `thinking` and the TypeError of the planner call, which ends the
\* endpoint (an error frame is sent if the connection is active)
RunEnds(c, use_direct_response, disconnect_exc) ==
    /\ server.connection[c].pc = "running"
    /\ LET session_id == server.connection[c].session IN
        server' =
          IF use_direct_response
          THEN [Published(server, "complete", session_id, disconnect_exc)
                    EXCEPT !.connection[c].pc = "receiving"]
          ELSE LET srv == Published(server, "thinking", session_id, disconnect_exc)
                   k == srv.connection[c]
               IN CloseConnection(
                     IF k.connection_active /\ ~k.down
                     THEN [srv EXCEPT !.connection[c].received =
                                          @ \cup {SentFrame("error", session_id)}]
                     ELSE srv, c)

\* POST /api/chat {message, session_id}: the handler awaits run_async of the
\* AgentLoop of the session
ChatRequest(session_id) ==
    /\ server.chat.pc = "idle"
    /\ server.started < MaxRuns
    /\ server' = [server EXCEPT !.chat = [pc |-> "running", session |-> session_id],
                                !.started = @ + 1]

\* The run of the chat request ends, by returning or by raising
ChatEnds(use_direct_response, disconnect_exc) ==
    /\ server.chat.pc = "running"
    /\ server' = [Published(server,
                            IF use_direct_response THEN "complete" ELSE "thinking",
                            server.chat.session, disconnect_exc)
                    EXCEPT !.chat = [pc |-> "idle", session |-> "none"]]

\* The client of a connection goes away
ClientGone(c) ==
    /\ server.connection[c].pc \in {"accepting", "receiving", "running"}
    /\ ~server.connection[c].down
    /\ server' = [server EXCEPT !.connection[c].down = TRUE]

\* receive_text raises WebSocketDisconnect
Disconnected(c) ==
    /\ server.connection[c].pc = "receiving"
    /\ server.connection[c].down
    /\ server' = CloseConnection(server, c)

ServerNext ==
    \/ \E c \in Conns, session_id \in SessionIds : OpenConnection(c, session_id)
    \/ \E c \in Conns : RegisterHandler(c)
    \/ \E c \in Conns : ClientMessage(c)
    \/ \E c \in Conns, use_direct_response, disconnect_exc \in BOOLEAN :
            RunEnds(c, use_direct_response, disconnect_exc)
    \/ \E session_id \in SessionIds : ChatRequest(session_id)
    \/ \E use_direct_response, disconnect_exc \in BOOLEAN :
            ChatEnds(use_direct_response, disconnect_exc)
    \/ \E c \in Conns : ClientGone(c)
    \/ \E c \in Conns : Disconnected(c)

(***************************************************************************)
(* Specifications                                                          *)
(***************************************************************************)
\* Each specification follows one part; the other parts keep their initial
\* state (for the plan: the one-step plan that is not run).
IdlePlan == PlanInit /\ plan = <<"da">>
AuxInit == StoreIdle /\ MonInit /\ ConnInit /\ ServerInit
Init == BusInit /\ QueueInit /\ IdlePlan /\ TurnInit /\ AuxInit

BusSpec == Init /\ [][BusNext /\ UNCHANGED <<queueVars, planVars, turnVars, auxVars>>]_vars

RegistrySpec == Init /\ [][RegistryNext /\ UNCHANGED <<queueVars, planVars, turnVars, auxVars>>]_vars

QueueSpec == Init /\ [][QueueNext /\ UNCHANGED <<busVars, planVars, turnVars, auxVars>>]_vars

StoreOnlyInit == BusInit /\ QueueInit /\ IdlePlan /\ TurnInit /\ StoreInit /\ MonInit /\ ConnInit /\ ServerInit

StoreSpec ==
    StoreOnlyInit /\ [][StoreNext /\ UNCHANGED <<busVars, queueVars, planVars, turnVars, monVars, connVars, serverVars>>]_vars

MonSpec ==
    Init /\ [][MonNext /\ UNCHANGED <<busVars, queueVars, planVars, turnVars, storeVars, connVars, serverVars>>]_vars

ServerSpec ==
    Init /\ [][ServerNext /\ UNCHANGED <<busVars, queueVars, planVars, turnVars, storeVars, monVars, connVars>>]_vars

ConnSpec ==
    Init /\ [][ConnNext /\ UNCHANGED <<busVars, queueVars, planVars, turnVars, storeVars, monVars, serverVars>>]_vars

\* The event loop goes on with the endpoint and its run while they can
\* proceed: a model call of the run returns, receive_text raises on a closed
\* transport
ConnFairSpec ==
    ConnSpec /\ WF_vars(ConnProgress /\ UNCHANGED <<busVars, queueVars, planVars, turnVars, storeVars, monVars, serverVars>>)

PlanRunInit == BusInit /\ QueueInit /\ PlanCallInit /\ TurnInit /\ AuxInit

StepCallInit == BusInit /\ QueueInit /\ StepInit /\ TurnInit /\ AuxInit

StepSpec == StepCallInit /\ [][StepNext /\ UNCHANGED <<busVars, queueVars, turnVars, auxVars>>]_vars

RunSessionInit == BusInit /\ QueueInit /\ RunInit /\ TurnInit /\ AuxInit

RunSpec ==
    RunSessionInit /\ [][RunNext /\ UNCHANGED <<busVars, queueVars, turnVars, auxVars>>]_vars

TurnSpec == Init /\ [][TurnNext /\ UNCHANGED <<busVars, queueVars, planVars, auxVars>>]_vars

\* The event loop goes on with the sub-agent while it can proceed
TurnFairSpec == TurnSpec /\ WF_vars(TurnNext /\ UNCHANGED <<busVars, queueVars, planVars, auxVars>>)

PlanSpec == PlanRunInit /\ [][PlanNext /\ UNCHANGED <<busVars, queueVars, turnVars, auxVars>>]_vars

\* The event loop runs a task that can proceed and fires a timer that is due.
QueueFairSpec ==
    /\ QueueSpec
    /\ \A r \in Receivers : WF_vars(TimeoutFire(r) /\ UNCHANGED <<busVars, planVars, turnVars, auxVars>>)
    /\ \A r \in Receivers : WF_vars(RecvTake(r) /\ UNCHANGED <<busVars, planVars, turnVars, auxVars>>)

(***************************************************************************)
(* Event bus properties                                                    *)
(***************************************************************************)
CallKeys(c) == [i \in DOMAIN c |-> <<c[i].grp, c[i].fn, c[i].reg>>]
ListKeys(grp, lst) == [i \in DOMAIN lst |-> <<grp, lst[i].fn, lst[i].reg>>]

\* C1: a publish call (emit_event or emit_event_async) always returns normally,
\* whatever its handlers raised, and when the registries were not changed while
\* it ran it has called every listener of the event type and every sink
\* handler, in list order, the ones after a raising handler included.
C1_RaisingHandlerIsSkipped ==
    \A p \in Publishers :
        em[p].phase = "done" =>
            /\ em[p].outcome = "returned"
            /\ ~em[p].disturbed =>
                  CallKeys(em[p].calls) =
                      ListKeys("typed", listeners[em[p].type]) \o ListKeys("sink", sinks)

\* An awaited coroutine listener raised, and a later listener of the type and a
\* sink handler were called after it in the same delivery.
C1_Witness ==
    \E p \in Publishers :
        /\ em[p].phase = "done"
        /\ ~em[p].disturbed
        /\ \E i, j, l \in DOMAIN em[p].calls :
              /\ i < j /\ j < l
              /\ em[p].calls[i].res = "raised"
              /\ IsCoroutine(em[p].calls[i].fn)
              /\ em[p].calls[j].grp = "typed"
              /\ em[p].calls[l].grp = "sink"

\* C2: after N publish calls through emit_event_async (distinct event types),
\* made while the registries did not change, every registered sink handler
\* has received exactly the deliveries of calls 1..N, in that order.
C2_SinkReceivesEveryPublish ==
    \A p \in Publishers :
        (em[p].phase = "done" /\ em[p].allAsync /\ ~em[p].seqDisturbed) =>
            \A i \in DOMAIN sinks :
                em[p].got[sinks[i].fn] = [j \in 1..em[p].k |-> j]

\* Two publish calls are over, a listener of the second event's type raised,
\* and a sink handler is registered.
C2_Witness ==
    \E p \in Publishers :
        /\ em[p].phase = "done" /\ em[p].allAsync /\ ~em[p].seqDisturbed
        /\ em[p].k = 2
        /\ sinks # <<>>
        /\ \E i \in DOMAIN em[p].calls :
              em[p].calls[i].grp = "typed" /\ em[p].calls[i].res = "raised"

\* C3: in the calls of one delivery no sink handler precedes a listener of the
\* event type, and within each group the calls follow registration order.
C3_TypedBeforeSinksInRegistrationOrder ==
    \A p \in Publishers :
        \A i, j \in DOMAIN em[p].calls :
            i < j =>
                /\ ~(em[p].calls[i].grp = "sink" /\ em[p].calls[j].grp = "typed")
                /\ em[p].calls[i].grp = em[p].calls[j].grp
                      => em[p].calls[i].reg < em[p].calls[j].reg

\* A delivery called two listeners of the type and then a sink handler.
C3_Witness ==
    \E p \in Publishers :
        /\ em[p].phase = "done"
        /\ Len(em[p].calls) = 3
        /\ em[p].calls[1].grp = "typed"
        /\ em[p].calls[2].grp = "typed"
        /\ em[p].calls[3].grp = "sink"

\* C4: a coroutine handler has run to completion (returned or raised) before
\* the next handler of the same delivery is called and before the publish call
\* is over, for emit_event and emit_event_async alike.
C4_AsyncHandlerRunsToCompletion ==
    \A p \in Publishers :
        \A i \in DOMAIN em[p].calls :
            (IsCoroutine(em[p].calls[i].fn)
                /\ (i < Len(em[p].calls) \/ em[p].phase = "done"))
            => em[p].calls[i].res \in {"ok", "raised"}

\* C5: the listeners registered for an event type are exactly those whose
\* subscribe call has not been followed by unsubscribe with its handle.
C5_UnsubscribeRemovesItsListener ==
    \A t \in EventTypes :
        RegsOf(listeners[t]) =
            {subs[t][i].reg : i \in {j \in DOMAIN subs[t] : subs[t][j].active}}

(***************************************************************************)
(* Correlation queue properties                                            *)
(***************************************************************************)
\* The messages that send_message has put on the queue of id, in send order
Enqueued(id) ==
    LET s == SelectSeq(sent, LAMBDA x : x.id = id /\ x.via = "queue")
    IN [i \in DOMAIN s |-> s[i].msg]

SendsTo(id) == {i \in DOMAIN sent : sent[i].id = id}

\* C6: every send_message call, also one on an id that has no queue yet,
\* leaves the queue of that id existing with the message put on it.
C6_SendCreatesQueue ==
    \A i \in DOMAIN sent : sent[i].id \in queue_ids /\ sent[i].via = "queue"

\* C7: when one message was sent to an id and one task received on that id,
\* the send having been made before the receive returned (before or while it
\* waited), the receive returned that message.
C7_SendAndReceiveInEitherOrder ==
    \A r \in Receivers :
        (/\ recv[r].pc = "returned"
         /\ Cardinality(SendsTo(recv[r].id)) = 1
         /\ \A i \in SendsTo(recv[r].id) : i <= recv[r].nsent
         /\ \A q \in Receivers \ {r} : recv[q].pc = "idle" \/ recv[q].id # recv[r].id)
        => \A i \in SendsTo(recv[r].id) : recv[r].result = sent[i].msg

\* C8: a receive_message call that was given a finite timeout eventually
\* returns.
C8_ReceiveWithTimeoutReturns ==
    \A r \in Receivers :
        (recv[r].pc = "waiting" /\ recv[r].timeout # NoTimeout)
            ~> (recv[r].pc = "returned")

\* C9: on every queue the messages returned so far followed by the messages
\* still queued are the messages that were put on it, in send order.
C9_QueueIsFifo ==
    \A id \in QueueIds : received[id] \o queue_items[id] = Enqueued(id)

\* A second message was put behind an unconsumed first one and both have been
\* returned by two receives on that id.
C9_Witness ==
    \E id \in QueueIds :
        /\ Len(received[id]) = 2
        /\ \E i \in SendsTo(id) : sent[i].via = "queue" /\ sent[i].depth = 1

(***************************************************************************)
(* Plan execution properties                                               *)
(***************************************************************************)
EndsWith(seq, x) == seq # <<>> /\ seq[Len(seq)] = x
EventTypesOf(evs) == [k \in DOMAIN evs |-> evs[k].type]
StepsOf(completed) == [k \in DOMAIN completed |-> completed[k].step]
StepEventsOf(evs) == SelectSeq(evs, LAMBDA e : e.type = "step")

\* C10: the steps of the plan are executed in plan order, one at a time: the
\* executor is invoked for the steps 1, 2, ...; when it is invoked for step i
\* the `step` events published so far are exactly those of steps 1..i and the
\* context holds the folded results of exactly the steps 1..i-1; and a run
\* that has published the `step` event of step i does not end before the
\* executor has been invoked for step i.
C10_StepsRunInOrderOneAtATime ==
    /\ execCalls = [k \in 1..Len(execCalls) |-> k]
    /\ run.pc = "executing" =>
          /\ Len(execCalls) = run.i
          /\ StepEventsOf(events) = [k \in 1..run.i |-> StepEvent(k)]
          /\ StepsOf(context.completed_steps) = [k \in 1..(run.i - 1) |-> k]
    /\ run.pc = "raised" => Len(execCalls) = run.i

\* C11: between the steps of a plan and after the last one (the session record
\* being in the store), the context persisted in the session state has one
\* completed_steps entry per finished step, in plan order, each with the number,
\* the description and the result text of its step, the empty text included;
\* a plan execution that is over has persisted the entry of every step, unless
\* a model call or a tool of a step failed.
C11_PersistedContextHasEveryCompletedStep ==
    (session.exists /\ (\/ run.pc \in {"loop", "final_call", "returned"}
                        \/ run.pc = "raised" /\ run.failed \notin {"step", "tool"})) =>
        LET cs == session.state.context.completed_steps IN
        /\ Len(cs) = run.i - 1
        /\ Len(cs) > 0 => session.state.has_context
        /\ \A k \in DOMAIN cs :
              cs[k] = [step |-> k, description |-> plan[k],
                       result |-> run.returned[k]]
        /\ run.pc # "loop" => Len(cs) = Len(plan)

\* C15: the final-response request is made once, after the last step has
\* returned, with the conversation read from the session at that moment; the
\* run returns its answer after storing it as the last (assistant) message and
\* publishing `complete` with it; `complete` is published once, as the last
\* event of the run, and by no run that has not finished its steps; the plan
\* execution gets there unless a model call or a tool of a step failed.
C15_FinalAnswerStoredThenComplete ==
    LET types == EventTypesOf(events)
        completes == {k \in DOMAIN types : types[k] = "complete"}
    IN /\ run.pc = "final_call" =>
            /\ Len(run.returned) = Len(plan)
            /\ run.finalRequests = 1
            /\ run.memory = GetConversation(session) \/ ~session.exists
            /\ completes = {}
       /\ completes # {} => run.pc = "returned"
       /\ run.pc = "returned" =>
            /\ Len(run.returned) = Len(plan)
            /\ execCalls = [k \in 1..Len(plan) |-> k]
            /\ run.finalRequests = 1
            /\ completes = {Len(events)}
            /\ events[Len(events)] = Event("complete", 0, 0, run.ret)
            /\ session.exists =>
                  EndsWith(session.conversation, Message("assistant", run.ret))
       /\ run.pc = "raised" => run.failed \in {"step", "tool"}

\* C16: once a model call has raised, in the execution of a step or in the
\* final-response call, the call ends with the exception and the caller makes
\* no later call: no text is returned as a final answer.
C16_ModelCallErrorAbortsTheRun ==
    run.failed \in {"step", "final"} =>
        /\ run.pc = "raised"
        /\ run.ret = "none"

\* Every function_call item of a conversation is followed in it by a
\* function_call_output item with the same call_id
CallsAnswered(conversation) ==
    \A k \in DOMAIN conversation :
        conversation[k].type = "function_call" =>
            \E j \in DOMAIN conversation :
                /\ j > k
                /\ conversation[j].type = "function_call_output"
                /\ conversation[j].call_id = conversation[k].call_id
FunctionCallsOf(conversation) ==
    {k \in DOMAIN conversation : conversation[k].type = "function_call"}

C18_ToolResultIsSentBackToTheModel ==
    (run.pc = "fold" /\ HasFunctionCall(run.output)) => run.requests = 2

\* The items of the response of the current step, as they are in the
\* conversation of the memory dict
IsLatestOutput(k) ==
    /\ k \in DOMAIN run.output
    /\ \E j \in DOMAIN run.memory : run.memory[j] = run.output[k]

\* C25: for a function call (computer_use) of a response, when the sub-agent
\* is started on the task every output item of the response is in the
\* conversation, the last two events published are tool_usage and cua_event
\* with the task of the call, and the conversation has no function_call_output
\* for the call yet; when the sub-agent has returned, the last item of the
\* conversation is the function_call_output with the call_id of the call and
\* the transcript of the sub-agent.
C25_ToolCallIsRecordedAnnouncedRunAndAnswered ==
    /\ run.pc = "tool" =>
          LET call == run.output[run.item] IN
          /\ \A k \in DOMAIN run.output : IsLatestOutput(k)
          /\ Len(events) >= 2
          /\ events[Len(events) - 1].type = "tool_usage"
          /\ events[Len(events)] = Event("cua_event", run.i, 0, call.content)
          /\ \A j \in DOMAIN run.memory :
                run.memory[j].type = "function_call_output"
                    => run.memory[j].call_id # call.call_id
    /\ (run.pc \in {"items", "fold"} /\ run.item > 1
            /\ run.output[run.item - 1].type = "function_call") =>
          LET call == run.output[run.item - 1] IN
          /\ run.memory[Len(run.memory)].type = "function_call_output"
          /\ run.memory[Len(run.memory)].call_id = call.call_id
          /\ run.memory[Len(run.memory)].content = Transcripts[run.item - 1]
          /\ run.result = Transcripts[run.item - 1]

\* The second function call of a response has been answered with the
\* transcript of its sub-agent run.
C25_Witness ==
    /\ run.pc = "fold" /\ run.item = 3
    /\ run.output[1].type = "function_call" /\ run.output[2].type = "function_call"
    /\ Len(events) >= 4

\* C24: every event that the execution of a plan publishes has one of the
\* canonical event types.
C24_PublishedEventTypesAreCanonical ==
    \A k \in DOMAIN events :
        events[k].type \in
            {"session_info", "thinking", "plan", "step", "executing_step",
             "tool_usage", "cua_event", "cua_reasoning", "cua_clarification",
             "browser_started", "clarification", "finalizing", "complete",
             "error", "pong"}

(***************************************************************************)
(* Session store properties                                                *)
(***************************************************************************)
\* The record holds what the call of w has written
HasEffect(record, w) ==
    \/ \E k \in DOMAIN record.conversation : record.conversation[k] = w
    \/ w \in record.state

Succeeded(w) == writers[w].pc = "done" /\ writers[w].op \in WriteOps /\ writers[w].ok

\* C23: of two calls (add_message / update_state) on one session that both
\* reported success, the later one stores the copy it has read with its own
\* change: the stored record has the effect of the earlier call exactly when
\* that copy had it, so the earlier write is lost when the later call read the
\* record before the earlier call wrote it.
C23_LaterWriteStoresItsOwnCopy ==
    \A a, b \in Writers :
        (a # b /\ Succeeded(a) /\ Succeeded(b) /\ store.by = b) =>
            /\ HasEffect(store, b)
            /\ HasEffect(store, a) <=> HasEffect(writers[b].session_data, a)

\* Two calls have reported success and the stored record lacks the effect of
\* the first one.
C23_Witness ==
    \E a, b \in Writers :
        /\ a # b /\ Succeeded(a) /\ Succeeded(b) /\ store.by = b
        /\ \A w \in Writers \ {a, b} : writers[w].pc = "idle"
        /\ ~HasEffect(store, a)

\* C39: the text the executor returns for a step is the plain text of the
\* response when the response has no function call, and the transcript of the
\* sub-agent run of the last function call when it has one, whatever items
\* come before or after that call.
C39_StepTextIsPlainTextOrLastTranscript ==
    run.pc = "fold" =>
        LET calls == {k \in DOMAIN run.output : run.output[k].type = "function_call"} IN
        IF calls = {}
        THEN run.result = OutputText(run.output)
        ELSE \E k \in calls :
                /\ \A j \in calls : j <= k
                /\ run.result = Transcripts[k]

\* C37: a call (add_message, update_state, get_conversation, get_state) that
\* finds no record of the session changes nothing in the store, so the session
\* stays missing; a write then returns False and a read returns the empty
\* conversation or state; and the store never holds the effect of a write that
\* returned False.
C37_MissingSessionIsNotWrittenOrRecreated ==
    /\ [][\A w \in Writers :
            (writers[w].pc = "idle" /\ writers'[w].pc # "idle" /\ ~store.exists) =>
                /\ writers'[w].pc = "done"
                /\ ~writers'[w].ok
                /\ writers'[w].value = NoValue
                /\ store' = store]_vars
    /\ [](\A w \in Writers :
            (writers[w].pc = "done" /\ writers[w].op \in WriteOps /\ ~writers[w].ok)
                => ~HasEffect(store, w))

\* The record was written, has expired, and a later update_state and a later
\* get_conversation have found nothing.
C37_Witness ==
    /\ ~store.exists
    /\ \E a, b, c \in Writers :
          /\ Succeeded(a) /\ writers[a].op = "add_message"
          /\ writers[b].pc = "done" /\ writers[b].op = "update_state" /\ ~writers[b].ok
          /\ writers[c].pc = "done" /\ writers[c].op = "get_conversation" /\ ~writers[c].ok

\* The calls an emission has made to sink handler fn
SinkCalls(e, fn) ==
    Cardinality({i \in DOMAIN e.calls : e.calls[i].grp = "sink" /\ e.calls[i].fn = fn})

\* C32: when a sink handler was removed while emit_event_async was in its
\* loop over the sink handlers, every sink handler that stayed registered from
\* the start of that loop to its end has been called exactly once for the event.
C32_RemovalDuringEmissionSparesOthers ==
    [][\A p \in Publishers :
        (em[p].phase = "sink" /\ em'[p].phase = "done" /\ em[p].entry = "async"
                /\ em[p].removed)
            => \A fn \in em[p].kept : SinkCalls(em'[p], fn) = 1]_vars

\* C35: a received text that json.loads rejects starts no run and sends no
\* frame, and the endpoint goes on receiving.
C35_UnparsableFrameIsIgnored ==
    [][conn'.texts = Append(conn.texts, "garbage")
          => /\ conn'.runs = conn.runs
             /\ conn'.sent = conn.sent
             /\ conn'.endpoint = "receiving"]_vars

(***************************************************************************)
(* API process properties                                                  *)
(***************************************************************************)
\* The run_async calls in flight on the AgentLoop of a session
RunsInFlight(session_id) ==
    Cardinality({c \in Conns : server.connection[c].pc = "running"
                               /\ server.connection[c].session = session_id})
        + (IF server.chat.pc = "running" /\ server.chat.session = session_id
           THEN 1 ELSE 0)

\* C31: at most one run_async call is in flight on the AgentLoop of a session.
C31_OneRunInFlightPerSession ==
    \A session_id \in SessionIds : RunsInFlight(session_id) <= 1

\* A connection whose endpoint has registered its handler and has not ended
Live(c) == server.connection[c].pc \in {"receiving", "running"}

\* C33: the handler of a connection stays in the sink list from its
\* registration until the endpoint of that connection ends, and the list holds
\* exactly one handler for each such connection.
C33_HandlerStaysUntilOwnDisconnect ==
    /\ \A c \in Conns : Live(c) => Registered(c)
    /\ Len(server.websocket_handlers) = Cardinality({c \in Conns : Live(c)})

\* C34: every frame sent on the socket of a connection was made for the
\* session of that connection.
C34_EventsReachOnlyTheirSession ==
    \A c \in Conns : \A f \in server.connection[c].received :
        f.session = server.connection[c].session

(***************************************************************************)
(* Connection properties                                                   *)
(***************************************************************************)
\* C21: once the endpoint has ended its handler is out of the sink list and
\* connection_active is false, and a transport disconnect leads to that; no
\* frame is sent after the disconnect; the disconnect itself leaves the run
\* in flight as it is, a run in flight goes on to its end, and a run that
\* answers directly leaves its step by storing the answer.
C21_DisconnectClosesSinkAndSparesRun ==
    /\ [](conn.endpoint = "closed" => ~conn.registered /\ ~conn.connection_active)
    /\ (conn.transport = "down") ~> (~conn.registered /\ ~conn.connection_active)
    /\ [][conn.transport = "down" => conn'.sent = conn.sent]_vars
    /\ [][(conn.transport = "open" /\ conn'.transport = "down" /\ conn.endpoint = "running"
            /\ conn'.endpoint = "running")
            => (conn'.runPc = conn.runPc /\ conn'.stored = conn.stored)]_vars
    /\ [][(conn.runPc = "direct" /\ conn'.runPc # "direct")
            => (conn'.runPc = "idle" /\ conn'.stored = conn.stored + 1)]_vars
    /\ (conn.runPc \in {"analysis", "direct"}) ~> (conn.runPc \in {"idle", "raised"})

\* The client went away while the only run was in flight: the run has stored
\* its answer, an event for the client was dropped, and the endpoint has ended.
C21_Witness ==
    /\ conn.endpoint = "closed" /\ conn.inflight /\ conn.dropped
    /\ conn.runs = 1 /\ conn.stored = 1 /\ conn.runPc = "idle"

\* C22: an event whose payload is not a mapping, or is a mapping that is not
\* serializable, is forwarded to the client of an open connection as the
\* wrapper {message: <string form of the payload>} under its own event type.
C22_OddPayloadIsForwardedAsWrapper ==
    (/\ conn.last.outcome \in {"skip", "send", "error"}
     /\ (conn.last.data.kind # "dict" \/ ~conn.last.data.serializable)) =>
        /\ conn.last.outcome = "send"
        /\ conn.last.frame = Frame(WebsocketEventType(conn.last.type), "wrapper",
                                   conn.last.data.text)

(***************************************************************************)
(* Monitoring pass properties                                              *)
(***************************************************************************)
\* C30: over the items the monitoring pass has processed the judge is called
\* at most once per items_between_interventions items, never after
\* max_interventions interventions, and at most max_interventions guidance
\* items are injected, each one a user item.
C30_JudgeCalledOncePerTwoItems ==
    /\ mon.judge_calls * items_between_interventions <= mon.items_processed
    /\ mon.capped_calls = 0
    /\ Len(mon.injected) <= max_interventions
    /\ \A k \in DOMAIN mon.injected : mon.injected[k].role = "user"

(***************************************************************************)
(* Turn loop properties                                                    *)
(***************************************************************************)
TurnOver == turn.pc \in {"returned", "raised"}

\* C19: the execution of a plan step ends after a bounded number of model
\* calls whatever the models answer: in particular the sub-agent run that the
\* step makes for a tool call, once it requests model turns, ends (by
\* returning or by raising).
C19_StepExecutionEnds == (turn.pc = "request") ~> TurnOver

\* C20: once the callback has refused a pending safety check of a
\* computer_call, the turn loop stays aborted by the exception: it has made no
\* computer_call_output for that call or a later one, it has sent the action of
\* that call to the computer once and the action of no later call.
C20_RefusedSafetyCheckAbortsTurnLoop ==
    turn.rejected # 0 =>
        /\ turn.pc = "raised"
        /\ \A k \in DOMAIN turn.tail :
              turn.tail[k].type = "computer_call_output"
                  => turn.tail[k].call_id < turn.rejected
        /\ turn.dispatched # <<>>
        /\ \A k \in DOMAIN turn.dispatched :
              (turn.dispatched[k] = turn.rejected) <=> (k = Len(turn.dispatched))

\* The second computer_call of a response had a safety check refused after
\* the first one had passed its checks and got its output.
C20_Witness ==
    /\ turn.rejected = 2
    /\ turn.response[1].type = "computer_call" /\ turn.response[1].checks > 0
    /\ \E k \in DOMAIN turn.tail :
          turn.tail[k].type = "computer_call_output" /\ turn.tail[k].call_id = 1

\* The number of times the action of a call was sent to the computer
TimesSent(call_id) ==
    Cardinality({k \in DOMAIN turn.dispatched : turn.dispatched[k] = call_id})

\* C38: when the callback is about to be asked about the safety checks of a
\* computer_call, the action of the call has been sent to the computer once
\* and no check of the call has been evaluated; a call whose check was
\* evaluated or refused had its action sent exactly once, and a call whose
\* action or screenshot raised has had no check evaluated.
C38_ActionIsSentBeforeItsChecks ==
    /\ turn.pc = "checks" =>
          /\ TimesSent(CurrentItem.call_id) = 1
          /\ turn.checkedCall # CurrentItem.call_id
    /\ turn.checkedCall # 0 => TimesSent(turn.checkedCall) = 1
    /\ turn.rejected # 0 =>
          /\ turn.pc = "raised"
          /\ turn.rejected = turn.checkedCall
          /\ TimesSent(turn.rejected) = 1
    /\ turn.cause = "computer" =>
          \A k \in DOMAIN turn.dispatched :
              k = Len(turn.dispatched) => turn.checkedCall # turn.dispatched[k]

\* The callback refused the second pending check of a call after it had
\* acknowledged the first.
C38_Witness ==
    /\ turn.rejected # 0
    /\ turn.checked = 2
    /\ turn.cause = "safety"

\* C26: a model turn is requested only while the last item of new_items does
\* not have role assistant (or new_items is empty); when the items of a
\* response are handled the loop requests the next turn unless the last item
\* has role assistant, and when it returns the last item has role assistant.
C26_TurnsRequestedUntilLastItemIsAssistant ==
    /\ turn.asked # "assistant"
    /\ turn.pc = "request" => turn.last # "assistant"
    /\ turn.pc = "returned" => turn.last = "assistant"

\* The loop has returned after a turn that was requested when the last item
\* was a computer_call_output.
C26_Witness ==
    /\ turn.pc = "returned"
    /\ turn.asked = ""
    /\ turn.dispatched = <<>>

\* C27: while the loop waits for a clarification, the id it waits on is the
\* one made for this question (made after every earlier id) and the last event
\* published is cua_clarification with the question and that id; an answer
\* that is on the queue of the id when the wait ends is appended as a user
\* item with exactly that content, and the loop goes on (next item, then the
\* next model turn).
C27_ClarificationAnswerBecomesUserItem ==
    /\ [](turn.pc \in {"emitted", "clarifying"} =>
            /\ turn.clarId = turn.nextId - 1
            /\ turn.emitted # <<>>
            /\ turn.emitted[Len(turn.emitted)] =
                  TurnEvent("cua_clarification", turn.clarId, "question"))
    /\ [][(turn.pc = "items" /\ turn'.pc = "emitted") =>
            turn'.clarId >= turn.nextId]_vars
    /\ [][(turn.pc = "clarifying" /\ turn.queue # <<>>) =>
            /\ turn'.tail = Append(turn.tail,
                                   TurnItem("message", "user", 0, Head(turn.queue)))
            /\ turn'.pc \in {"items", "request"}]_vars

\* The answer "yes" of the client was appended as a user item after the
\* clarification event, and the next model turn is about to be requested.
C27_Witness ==
    /\ turn.pc = "request"
    /\ turn.tail # <<>>
    /\ turn.tail[Len(turn.tail)] = TurnItem("message", "user", 0, "yes")
    /\ \E k \in DOMAIN turn.emitted : turn.emitted[k].type = "cua_clarification"

\* C36: an answer posted for the clarification id after cua_clarification was
\* published, before or after the loop has started to wait on the queue of
\* the id, is on that queue until the wait ends, and the wait then ends with
\* that answer: it is the content of the user item the loop appends.
C36_PostedAnswerIsReceived ==
    /\ []((turn.pc \in {"emitted", "clarifying"} /\ turn.posted # "") =>
            turn.queue = <<turn.posted>>)
    /\ [][(turn.pc = "clarifying" /\ turn.posted # "" /\ turn'.pc # "clarifying") =>
            /\ turn'.tail = Append(turn.tail,
                                   TurnItem("message", "user", 0, turn.posted))
            /\ turn'.pc \in {"items", "request"}]_vars

\* The answer "no" was posted before the loop started to wait, and the loop
\* has appended it and gone on.
C36_Witness ==
    /\ turn.posted = "no"
    /\ turn.early
    /\ turn.pc = "request"
    /\ turn.tail # <<>>
    /\ turn.tail[Len(turn.tail)] = TurnItem("message", "user", 0, "no")

\* C28: when the timeout of the wait for a clarification elapses with no
\* answer, the loop does not raise: it appends the fixed text that asks to
\* terminate the task, as an item of role user, and goes on; and the wait
\* always ends.
C28_ClarificationTimeoutAppendsUserItem ==
    /\ [][(turn.pc = "clarifying" /\ turn.queue = <<>> /\ turn'.pc # "clarifying") =>
            /\ turn'.tail = Append(turn.tail,
                                   TurnItem("message", "user", 0, NoAnswerText))
            /\ turn'.pc \in {"items", "request"}]_vars
    /\ (turn.pc = "clarifying") ~> (turn.pc # "clarifying")

\* A wait has timed out and the loop has requested the next turn after it.
C28_Witness ==
    /\ turn.pc = "request"
    /\ turn.tail # <<>>
    /\ turn.tail[Len(turn.tail)] = TurnItem("message", "user", 0, NoAnswerText)

\* C28 as stated: the item appended on a timeout is a system message.
C28_TimeoutItemIsSystemMessage ==
    \A k \in DOMAIN turn.tail :
        turn.tail[k].content = NoAnswerText => turn.tail[k].role = "system"

\* C29: the handling of a reasoning item never raises out of the turn loop.
C29_ReasoningNeverAbortsTheLoop == turn.cause # "reasoning"

(***************************************************************************)
(* Run properties                                                          *)
(***************************************************************************)
RunOver == run.pc \in {"returned", "raised"}

\* C12: a run for which the planner's answer is an empty plan without a
\* clarification request ends by returning the fixed failure text, with one
\* planner call and without any executor call.
C12_EmptyPlanEndsRunWithFailureText ==
    (RunOver /\ run.answer # <<>> /\ ~run.answer[1].clarification_needed
        /\ run.answer[1].plan = <<>>)
    => /\ run.pc = "returned"
       /\ run.ret = FailedPlanText
       /\ run.plannerCalls = 1
       /\ execCalls = <<>>

\* C13: a non-interactive run for which the planner's answer asks for a
\* clarification ends by returning the "clarification needed" result, having
\* appended the assistant message with the questions as the last message of
\* the conversation and without any executor call.
C13_ClarificationSuspendsTheRun ==
    (RunOver /\ run.answer # <<>> /\ run.answer[1].clarification_needed
        /\ ~run.interactive)
    => /\ run.pc = "returned"
       /\ run.ret = "clarification_needed"
       /\ execCalls = <<>>
       /\ session.exists =>
             EndsWith(session.conversation, Message("assistant", ClarificationText))

\* C14: a run whose analysis asked for the direct response returns that
\* response, the only event of the run is `complete` carrying it, the response
\* is the last message of the stored conversation (as an assistant message),
\* and neither the planner nor the executor was called.
C14_DirectAnswerSkipsPlanning ==
    (run.direct /\ RunOver)
    => /\ run.pc = "returned"
       /\ run.ret \in DirectTexts
       /\ events = <<Event("complete", 0, 0, run.ret)>>
       /\ session.exists => EndsWith(session.conversation, Message("assistant", run.ret))
       /\ run.plannerCalls = 0
       /\ execCalls = <<>>

\* The `complete` events of the current run_async call
CompleteEvents == SelectSeq(events, LAMBDA e : e.type = "complete")

\* C40: a run_async call publishes at most one `complete` event, and exactly
\* one if and only if it has returned an answer (not the clarification
\* request, not the plan-failure text); a call that has raised has published
\* none and has left the conversation as it was after its user message.
C40_CompleteOnlyWithAnAnswer ==
    /\ Len(CompleteEvents) <= 1
    /\ (Len(CompleteEvents) = 1)
            <=> (run.pc = "returned"
                    /\ run.ret \notin {"clarification_needed", FailedPlanText})
    /\ run.pc = "raised"
            => /\ Len(CompleteEvents) = 0
               /\ session.exists => session.conversation = run.memory

\* The first call on a session was answered directly (one `complete`, the
\* answer stored); the second call has raised out of planning
C40_Witness ==
    /\ run.n = 2 /\ run.pc = "raised" /\ run.plannerCalls = 1
    /\ events = <<Event("thinking", 0, 0, "")>>
    /\ session.exists /\ Len(session.conversation) = 3
    /\ session.conversation[2].role = "assistant"

\* The second message on a session was answered directly.
C14_Witness ==
    /\ run.direct /\ run.pc = "returned" /\ run.n = 2
    /\ session.exists /\ Len(session.conversation) = 4

====
